---- MODULE Spec2Model ----
(***************************************************************************)
(* Event and distributed lock subsystem of tsuru (event/event.go).         *)
(*                                                                         *)
(* The store is the shared events collection; every store call of the     *)
(* code is one atomic step.  A read of the wall clock (time.Now) belongs   *)
(* to the step that precedes the store call using it, so that the value    *)
(* can be stale when the store applies it, as in the code.                 *)
(* Time is counted in units of lockUpdateInterval (30 s in the code).     *)
(* lockExpireTimeout is 10 such units in the code (5 min); it is scaled    *)
(* to 3 here, which keeps what the code relies on: several renewals fit    *)
(* in one timeout.  The clock advances                                     *)
(* either between operations, with every updater on time (TickTimely), or  *)
(* while an operation or an updater is under way (TickLag).                *)
(***************************************************************************)
EXTENDS Integers, FiniteSets, Sequences, TLC

\* ---- bounds ----
MaxTime == 5
MaxObjIds == 2
MaxCalls == 3
MaxLag == 1
MaxFaults == 1
MaxStarts == 5

\* ---- program constants ----
lockUpdateInterval == 1
lockExpireTimeout == 3
maxRetries == 1
ZeroTime == 0

Procs == {"p1", "p2"}
Threads == {"a", "b", "c"}
procOf(th) == IF th = "c" THEN "p2" ELSE "p1"

NoTarget == [Name |-> "", Value |-> ""]
T1 == [Name |-> "app", Value |-> "a"]
T2 == [Name |-> "app", Value |-> "b"]
Targets == {T1, T2}

\* The inputs of the callers: "a" and "b" run in one process and can hold two
\* targets between them, "c" runs in another process and competes for T1.
TargetsOf(th) == IF th = "b" THEN {T1, T2} ELSE {T1}
CancelableOf(th) == IF th = "a" THEN {TRUE} ELSE {FALSE}
ErrorsOf(th) == {""}
Readers == {"c"}

\* Opts (lines 120-126); Nil is the nil *Opts, Kind "" the nil Kind.
NoOpts == [Nil |-> TRUE, Target |-> NoTarget, Kind |-> "", Owner |-> "", Cancelable |-> FALSE]
Opts(t, kind, owner, cancelable) ==
  [Nil |-> FALSE, Target |-> t, Kind |-> kind, Owner |-> owner, Cancelable |-> cancelable]
\* The opts a caller passes that New refuses: nil, a target without name or
\* value, no kind, no owner, and several of these at once.
NoName == [Name |-> "", Value |-> "a"]
NoValue == [Name |-> "app", Value |-> ""]
BadOptsOf(th) ==
  {NoOpts, Opts(NoName, "", "", FALSE), Opts(NoValue, "app.deploy", th, FALSE),
   Opts(T1, "", "", FALSE), Opts(T1, "app.deploy", "", FALSE)}

\* Target.IsValid (lines 58-60).
IsValid(t) == t.Name # "" /\ t.Value # ""

\* Variant: the owner is looked at before the kind.
Validate_OwnerFirst(o) ==
  IF o.Nil THEN "ErrNoOpts"
  ELSE IF ~IsValid(o.Target) THEN "ErrNoTarget"
  ELSE IF o.Owner = "" THEN "ErrNoOwner"
  ELSE IF o.Kind = "" THEN "ErrNoKind"
  ELSE ""

\* Lines 152-163: the validation of New, "" when the opts pass.
Validate(o) ==
  IF o.Nil THEN "ErrNoOpts"
  ELSE IF ~IsValid(o.Target) THEN "ErrNoTarget"
  ELSE IF o.Kind = "" THEN "ErrNoKind"
  ELSE IF o.Owner = "" THEN "ErrNoOwner"
  ELSE ""

\* eventId{target, objId}: exactly one of the two is set.
TargetId(t) == [target |-> t, objId |-> 0]
ObjectId(n) == [target |-> NoTarget, objId |-> n]

NoCancel == [Owner |-> "", StartTime |-> ZeroTime, AckTime |-> ZeroTime,
             Reason |-> "", Asked |-> FALSE, Canceled |-> FALSE]

\* The zero value of eventData (var existing Event).
NoEvent == [ID |-> TargetId(NoTarget), StartTime |-> ZeroTime, EndTime |-> ZeroTime,
            Target |-> NoTarget, StartCustomData |-> "", EndCustomData |-> "",
            Kind |-> "", Owner |-> "", Cancelable |-> FALSE, Running |-> FALSE,
            LockUpdateTime |-> ZeroTime, Error |-> "", Log |-> "", CancelInfo |-> NoCancel]

ErrExpired == "event expired, no update"
ErrCanceled == "canceled by user request"

\* What a call returned: the operation, the target it was about, its error
\* ("" is nil) and the event an ErrEventLocked carries.
NoRet == [op |-> "", target |-> NoTarget, err |-> "", event |-> NoEvent]
Ret(op, t, e) == [op |-> op, target |-> t, err |-> e, event |-> NoEvent]
\* Variant: New returns the duplicate-key error of the store as it is.
ErrEventLocked_Dup(t, ev) == Ret("New", t, "duplicate key")

ErrEventLocked(t, ev) == [op |-> "New", target |-> t, err |-> "ErrEventLocked", event |-> ev]

VARIABLES
  store,      \* the events collection: a set of eventData documents
  now,        \* the wall clock
  nextObjId,  \* bson.NewObjectId: the next fresh id
  calls,      \* the number of calls made by the callers so far
  lags,       \* the number of clock ticks that fell inside an operation so far
  rpc,        \* per process: where the lockUpdater goroutine is
  set,        \* per process: the set of targets of spin()
  rnow,       \* per process: the time.Now() of the pending Update of spin()
  elapsed,    \* per process: the time spin() has waited in its select, up to lockUpdateInterval
  pc,         \* per caller: where it is in New / done / TryCancel / AckCancel
  evt,        \* per caller: its Event handle (eventData part)
  logBuffer,  \* per caller: the logBuffer of its handle
  logWriter,  \* per caller: whether its handle has a logWriter, and what was written to it
  logged,     \* per caller: the lines given to Logf on its handle, in call order
  checked,    \* the last HasEvent check of a test: its description and its answer,
              \* and whether an odd number of checks was made
  held,       \* per caller: the handle came from a successful New and was not given to Done/Abort
  existing,   \* per caller: existingEvt of checkIsExpired
  i,          \* per caller: the loop counter of New
  rid,        \* per caller: the argument of the deferred RemoveId of done
  tnow,       \* per caller: the time.Now() of the pending Apply of TryCancel/AckCancel
  ret,        \* per caller: what its last call returned
  doneOn,     \* the targets on which done() was entered so far
  budget,     \* the number of calls the callers make in this run
  faults,     \* the number of store calls that failed so far
  attempts,   \* per caller: the Insert calls of its New so far
  args,       \* per caller: the arguments of the done() it is in
  opts,       \* per caller: the opts of the New it is validating
  once,       \* per process: updater.once, the sync.Once it points to
  onceDone,   \* per process: the sync.Once values whose Do has run
  stopCh,     \* per process: updater.stopCh, 0 when nil
  spinning,   \* per process: the spin() goroutines that have not returned
  nextId,     \* the next fresh sync.Once or channel
  lpc,        \* per caller: where it is in start() / stop()
  lonce,      \* per caller: the l.once that start() loaded
  lcalls,     \* the number of start() and stop() calls so far
  hin,        \* api handler: what its collaborators answer to this request
  hpc,        \* api handler: where it is
  herr,       \* api handler: its variable err
  hres,       \* api handler: the error it returned
  hdone       \* api handler: the arguments of the Done calls it made, in order

vars == <<store, now, nextObjId, calls, lags, rpc, set, rnow, elapsed, pc, evt, logBuffer, held,
          existing, i, rid, tnow, ret, doneOn, budget, faults, attempts, args, opts,
          once, onceDone, stopCh, spinning, nextId, lpc, lonce, lcalls,
          hin, hpc, herr, hres, hdone, logWriter, logged, checked>>
eventVars == <<store, now, nextObjId, calls, lags, rpc, set, rnow, elapsed, pc, evt, logBuffer,
               held, existing, i, rid, tnow, ret, doneOn, budget, faults, attempts, args, opts, logWriter, logged>>
lifeVars == <<once, onceDone, stopCh, spinning, nextId, lpc, lonce, lcalls>>
logVars == <<logBuffer, logWriter, logged>>
handlerVars == <<hin, hpc, herr, hres, hdone>>
callVars == <<calls, budget, faults, lifeVars, handlerVars, checked>>
updaterVars == <<rpc, set, rnow, elapsed>>
clockVars == <<now, lags>>
localVars == <<evt, logVars, held, existing, i, rid, tnow, ret, doneOn, attempts, args, opts>>

\* ---- the collection ----
ById(id) == {r \in store : r.ID = id}
IsDup(doc) == ById(doc.ID) # {}
Expired(r, t) == t > r.LockUpdateTime + lockExpireTimeout

\* The arguments of done(): evtErr, customData, abort, and whether the handle
\* is the one a successful New returned, not yet given to Done or Abort.
NoArgs == [err |-> "", data |-> "", abort |-> FALSE, held |-> FALSE]

\* No HasEvent check was made.
NoDesc ==
  [Target |-> NoTarget, Kind |-> "", Owner |-> "", StartCustomData |-> "",
   EndCustomData |-> "", LogMatches |-> "", ErrorMatches |-> ""]
NoCheck == [odd |-> FALSE, answer |-> [desc |-> NoDesc, ok |-> FALSE, msg |-> ""]]

\* The logWriter of a new handle: nil.
NoWriter == [set |-> FALSE, out |-> ""]

\* What the collaborators of a handler of api/app.go answer to one request:
\* the error of what comes before event.New (app lookup, user, platform),
\* whether the permission checks pass, and the errors of event.New, of the
\* operation (app.Delete, app.CreateApp), of GetRepository and of json.Marshal;
\* "" is nil.
Handlers == {"appDelete", "createApp"}
OpErrors == {"", "validation", "no teams", "already exists", "quota", "invalid platform", "failed"}
Requests ==
  [handler : Handlers, preErr : {"", "not found"}, allowed : BOOLEAN,
   newErr : {"", "ErrEventLocked"}, opErr : OpErrors,
   repoErr : {"", "no repository"}, marshalErr : {"", "marshal"}]
NoRequest ==
  [handler |-> "", preErr |-> "", allowed |-> FALSE, newErr |-> "", opErr |-> "",
   repoErr |-> "", marshalErr |-> ""]

\* The state after package initialisation, for a run of b calls on a
\* collection that holds the records recs; rq is the request a handler of
\* the api serves, NoRequest when there is none.
StartWith(b, recs, rq) ==
  /\ hin = rq
  /\ hpc = IF rq = NoRequest THEN "off" ELSE "pre"
  /\ herr = ""
  /\ hres = ""
  /\ hdone = <<>>
  /\ store = recs
  /\ now = 1
  /\ nextObjId = 1
  /\ calls = 0
  /\ lags = 0
  /\ rpc = [p \in Procs |-> "off"]
  /\ set = [p \in Procs |-> {}]
  /\ rnow = [p \in Procs |-> ZeroTime]
  /\ elapsed = [p \in Procs |-> 0]
  /\ pc = [th \in Threads |-> "idle"]
  /\ evt = [th \in Threads |-> NoEvent]
  /\ logBuffer = [th \in Threads |-> ""]
  /\ logWriter = [th \in Threads |-> NoWriter]
  /\ logged = [th \in Threads |-> <<>>]
  /\ checked = NoCheck
  /\ held = [th \in Threads |-> FALSE]
  /\ existing = [th \in Threads |-> NoEvent]
  /\ i = [th \in Threads |-> 0]
  /\ rid = [th \in Threads |-> TargetId(NoTarget)]
  /\ tnow = [th \in Threads |-> ZeroTime]
  /\ ret = [th \in Threads |-> NoRet]
  /\ doneOn = {}
  /\ budget = b
  /\ faults = 0
  /\ attempts = [th \in Threads |-> 0]
  /\ args = [th \in Threads |-> NoArgs]
  /\ opts = [th \in Threads |-> NoOpts]
  /\ once = [p \in Procs |-> 0]
  /\ onceDone = [p \in Procs |-> {}]
  /\ stopCh = [p \in Procs |-> 0]
  /\ spinning = [p \in Procs |-> 0]
  /\ nextId = 1
  /\ lpc = [th \in Threads |-> "idle"]
  /\ lonce = [th \in Threads |-> 0]
  /\ lcalls = 0

\* The same, with no request to the api.
StartOn(b, recs) == StartWith(b, recs, NoRequest)

\* The same, on an empty collection.
Start(b) == StartOn(b, {})

\* A handler of the api serves one request.
InitHandler == \E rq \in Requests : StartWith(0, {}, rq)

Init == Start(MaxCalls)

\* A longer run, for the callers of one process.
InitLocal == Start(MaxCalls + 1)

\* A caller enters one of the operations of the package.
Call(th) ==
  /\ pc[th] = "idle"
  /\ calls < budget
  /\ calls' = calls + 1
  /\ UNCHANGED <<budget, faults, lifeVars, handlerVars, checked>>

\* ---- New ----
\* Lines 150-181: start the updater, build the candidate event.
NewEvent(t, owner, cancelable, tm) ==
  [NoEvent EXCEPT !.ID = TargetId(t), !.Target = t, !.StartTime = tm,
                  !.StartCustomData = "start",
                  !.Kind = "app.deploy", !.Owner = owner, !.LockUpdateTime = tm,
                  !.Running = TRUE, !.Cancelable = cancelable]

\* The record of an event whose process is gone: it was inserted by a New at
\* the time the run starts, nobody renews its lockUpdateTime and nobody will
\* call Done on it.
Orphan == NewEvent(T1, "gone", FALSE, 1)

\* A run of the callers on a collection that holds such a record.
InitExpired == StartOn(MaxCalls - 1, {Orphan})

NewStart(th, t, cancelable) ==
  LET p == procOf(th) IN
  /\ Call(th)
  /\ ~held[th]
  /\ Validate(Opts(t, "app.deploy", th, cancelable)) = ""
  /\ IF rpc[p] = "off"
       THEN /\ rpc' = [rpc EXCEPT ![p] = "select"]
            /\ elapsed' = [elapsed EXCEPT ![p] = 0]
       ELSE UNCHANGED <<rpc, elapsed>>
  /\ evt' = [evt EXCEPT ![th] = NewEvent(t, th, cancelable, now)]
  /\ logBuffer' = [logBuffer EXCEPT ![th] = ""]
  /\ logWriter' = [logWriter EXCEPT ![th] = NoWriter]
  /\ logged' = [logged EXCEPT ![th] = <<>>]
  /\ held' = [held EXCEPT ![th] = FALSE]
  /\ existing' = [existing EXCEPT ![th] = NoEvent]
  /\ i' = [i EXCEPT ![th] = 0]
  /\ ret' = [ret EXCEPT ![th] = NoRet]
  /\ pc' = [pc EXCEPT ![th] = "n_insert"]
  /\ UNCHANGED <<store, clockVars, nextObjId, set, rnow, rid, tnow, doneOn, args>>
  /\ attempts' = [attempts EXCEPT ![th] = 0]
  /\ UNCHANGED opts

\* Lines 151-152 with opts that will not pass: the updater is started, then
\* the opts are validated.
NewCall(th, o) ==
  LET p == procOf(th) IN
  /\ Call(th)
  /\ ~held[th]
  /\ Validate(o) # ""
  /\ IF rpc[p] = "off"
       THEN /\ rpc' = [rpc EXCEPT ![p] = "select"]
            /\ elapsed' = [elapsed EXCEPT ![p] = 0]
       ELSE UNCHANGED <<rpc, elapsed>>
  /\ opts' = [opts EXCEPT ![th] = o]
  /\ ret' = [ret EXCEPT ![th] = NoRet]
  /\ pc' = [pc EXCEPT ![th] = "n_valid"]
  /\ UNCHANGED <<store, clockVars, nextObjId, set, rnow, evt, logVars, held, existing, i, rid,
                 tnow, doneOn, attempts, args>>

\* Lines 152-163: New returns the validation error.
NewReject(th) ==
  /\ pc[th] = "n_valid"
  /\ ret' = [ret EXCEPT ![th] = Ret("New", opts[th].Target, Validate(opts[th]))]
  /\ opts' = [opts EXCEPT ![th] = NoOpts]
  /\ pc' = [pc EXCEPT ![th] = "idle"]
  /\ UNCHANGED <<store, callVars, clockVars, nextObjId, updaterVars, evt, logVars, held,
                 existing, i, rid, tnow, doneOn, attempts, args>>

\* Variant: the insert does not meet a unique key.
NewInsert_Blind(th) ==
  /\ pc[th] = "n_insert"
  /\ store' = store \cup {evt[th]}
  /\ pc' = [pc EXCEPT ![th] = "n_add"]
  /\ UNCHANGED <<callVars, clockVars, nextObjId, updaterVars, evt, logVars, held, existing, i, rid, tnow, ret, doneOn, args>>
  /\ attempts' = [attempts EXCEPT ![th] = @ + 1]
  /\ UNCHANGED opts

\* Line 184 and the branch of lines 185-190 on its result.
NewInsert(th) ==
  /\ pc[th] = "n_insert"
  /\ IF ~IsDup(evt[th])
       THEN /\ store' = store \cup {evt[th]}
            /\ pc' = [pc EXCEPT ![th] = "n_add"]
       ELSE /\ store' = store
            /\ pc' = [pc EXCEPT ![th] = IF i[th] >= maxRetries THEN "n_find" ELSE "n_check"]
  /\ UNCHANGED <<callVars, clockVars, nextObjId, updaterVars, evt, logVars, held, existing, i, rid, tnow, ret, doneOn, args>>
  /\ attempts' = [attempts EXCEPT ![th] = @ + 1]
  /\ UNCHANGED opts

\* Variant: New returns without waiting for the updater to take the target.
NewAdd_NoWait(th) ==
  /\ pc[th] = "n_add"
  /\ held' = [held EXCEPT ![th] = TRUE]
  /\ existing' = [existing EXCEPT ![th] = NoEvent]
  /\ ret' = [ret EXCEPT ![th] = Ret("New", evt[th].Target, "")]
  /\ pc' = [pc EXCEPT ![th] = "idle"]
  /\ UNCHANGED <<store, callVars, clockVars, nextObjId, updaterVars, evt, logVars, i, rid, tnow,
                 doneOn, attempts, args, opts>>

\* Lines 186-187: the send on addCh meets the receive of spin() (lines 338-339),
\* which then leaves the select towards its Update.
NewAdd(th) ==
  LET p == procOf(th) IN
  /\ pc[th] = "n_add"
  /\ rpc[p] = "select"
  /\ set' = [set EXCEPT ![p] = @ \cup {evt[th].Target}]
  /\ rpc' = [rpc EXCEPT ![p] = "update"]
  /\ rnow' = [rnow EXCEPT ![p] = now]
  /\ held' = [held EXCEPT ![th] = TRUE]
  /\ existing' = [existing EXCEPT ![th] = NoEvent]
  /\ ret' = [ret EXCEPT ![th] = Ret("New", evt[th].Target, "")]
  /\ pc' = [pc EXCEPT ![th] = "idle"]
  /\ UNCHANGED <<store, callVars, clockVars, nextObjId, elapsed, evt, logVars, i, rid, tnow, doneOn, attempts, opts, args>>

\* checkIsExpired, lines 367-372: read the holder and compare with the clock.
NewCheck(th) ==
  /\ pc[th] = "n_check"
  /\ \/ /\ ById(evt[th].ID) = {}
        /\ pc' = [pc EXCEPT ![th] = "n_find"]
        /\ UNCHANGED existing
     \/ \E r \in ById(evt[th].ID) :
          IF Expired(r, now)
            THEN /\ existing' = [existing EXCEPT ![th] = r]
                 /\ pc' = [pc EXCEPT ![th] = "x_done"]
            ELSE /\ pc' = [pc EXCEPT ![th] = "n_find"]
                 /\ UNCHANGED existing
  /\ UNCHANGED <<store, callVars, clockVars, nextObjId, updaterVars, evt, logVars, held, i, rid, tnow, ret, doneOn, attempts, opts, args>>

\* Variant: New returns as soon as it has looked the holder up.
Retry_Never(th) == FALSE

\* Variant: the loop of New has no ceiling.
Retry_Always(th) == TRUE

\* Line 183: the loop goes on after a failed attempt while i+1 < maxRetries+1.
Retry(th) == i[th] + 1 < maxRetries + 1

\* Line 184 when the store fails with an error that is no duplicate key:
\* line 189 is false, nothing else happens in the iteration, and the loop of
\* line 183 goes on or ends with the return of line 199.
NewInsertFail(th) ==
  /\ pc[th] = "n_insert"
  /\ faults < MaxFaults
  /\ faults' = faults + 1
  /\ attempts' = [attempts EXCEPT ![th] = @ + 1]
  /\ UNCHANGED opts
  /\ ret' = [ret EXCEPT ![th] = Ret("New", evt[th].Target, "store error")]
  /\ IF Retry(th)
       THEN /\ i' = [i EXCEPT ![th] = @ + 1]
            /\ UNCHANGED <<pc, evt, existing>>
       ELSE /\ pc' = [pc EXCEPT ![th] = "idle"]
            /\ evt' = [evt EXCEPT ![th] = NoEvent]
            /\ existing' = [existing EXCEPT ![th] = NoEvent]
            /\ UNCHANGED i
  /\ UNCHANGED <<store, calls, budget, lifeVars, handlerVars, checked, clockVars, nextObjId, updaterVars, logVars, held, rid,
                 tnow, doneOn, args>>

\* Lines 191-195 and the loop step of line 183: the error of this attempt,
\* then the next attempt or the return of line 199.
NewFind(th) ==
  /\ pc[th] = "n_find"
  /\ \/ /\ ById(evt[th].ID) = {}
        /\ ret' = [ret EXCEPT ![th] = Ret("New", evt[th].Target, "not found")]
     \/ \E r \in ById(evt[th].ID) :
          ret' = [ret EXCEPT ![th] = ErrEventLocked(evt[th].Target, r)]
  /\ IF Retry(th)
       THEN /\ i' = [i EXCEPT ![th] = @ + 1]
            /\ pc' = [pc EXCEPT ![th] = "n_insert"]
            /\ UNCHANGED <<evt, existing>>
       ELSE /\ pc' = [pc EXCEPT ![th] = "idle"]
            /\ evt' = [evt EXCEPT ![th] = NoEvent]
            /\ existing' = [existing EXCEPT ![th] = NoEvent]
            /\ UNCHANGED i
  /\ UNCHANGED <<store, callVars, clockVars, nextObjId, updaterVars, logVars, held, rid, tnow, doneOn, attempts, opts, args>>

\* ---- done ----
\* The handle done() works on: existingEvt inside checkIsExpired, else the caller's.
InExpiry(th) == pc[th] \in {"x_done", "x_insert", "x_remove"}
Handle(th) == IF InExpiry(th) THEN existing[th] ELSE evt[th]
SetHandle(th, e) ==
  IF InExpiry(th)
    THEN /\ existing' = [existing EXCEPT ![th] = e]
         /\ UNCHANGED evt
    ELSE /\ evt' = [evt EXCEPT ![th] = e]
         /\ UNCHANGED existing

\* Variant: the record keeps the id of the running record.
Terminated_SameId(e, evtErr, customData, buf, tm, oid) ==
  [e EXCEPT !.Error = IF evtErr # "" THEN evtErr
                      ELSE IF e.CancelInfo.Canceled THEN ErrCanceled ELSE @,
            !.EndTime = tm, !.EndCustomData = customData, !.Running = FALSE,
            !.Log = buf]

\* Variant: the record is still marked running.
Terminated_Running(e, evtErr, customData, buf, tm, oid) ==
  [e EXCEPT !.Error = IF evtErr # "" THEN evtErr
                      ELSE IF e.CancelInfo.Canceled THEN ErrCanceled ELSE @,
            !.EndTime = tm, !.EndCustomData = customData,
            !.Log = buf, !.ID = ObjectId(oid)]

\* Variant: the error of the record is the error given to Done and nothing else.
Terminated_ErrOnly(e, evtErr, customData, buf, tm, oid) ==
  [e EXCEPT !.Error = evtErr,
            !.EndTime = tm, !.EndCustomData = customData, !.Running = FALSE,
            !.Log = buf, !.ID = ObjectId(oid)]

\* Lines 297-307: the terminal fields and the fresh id of the historical record.
Terminated(e, evtErr, customData, buf, tm, oid) ==
  [e EXCEPT !.Error = IF evtErr # "" THEN evtErr
                      ELSE IF e.CancelInfo.Canceled THEN ErrCanceled ELSE @,
            !.EndTime = tm, !.EndCustomData = customData, !.Running = FALSE,
            !.Log = buf, !.ID = ObjectId(oid)]

\* Variant: the updater takes the message and keeps the target in its set.
doneEnter_KeepsTarget(th, evtErr, customData, abort, buf, next) ==
  LET p == procOf(th)
      e == Handle(th) IN
  /\ rpc[p] = "select"
  /\ set' = set
  /\ rpc' = [rpc EXCEPT ![p] = "update"]
  /\ rnow' = [rnow EXCEPT ![p] = now]
  /\ doneOn' = doneOn \cup {e.Target}
  /\ IF abort
       THEN /\ pc' = [pc EXCEPT ![th] = "d_abort"]
            /\ UNCHANGED <<evt, existing, rid, nextObjId>>
       ELSE /\ nextObjId <= MaxObjIds
            /\ SetHandle(th, Terminated(e, evtErr, customData, buf, now, nextObjId))
            /\ rid' = [rid EXCEPT ![th] = e.ID]
            /\ nextObjId' = nextObjId + 1
            /\ pc' = [pc EXCEPT ![th] = next]
  /\ args' = [args EXCEPT ![th] = [err |-> evtErr, data |-> customData, abort |-> abort,
                                   held |-> held[th] /\ ~InExpiry(th)]]
  /\ UNCHANGED <<store, clockVars, elapsed, logVars, i, tnow, attempts, opts>>

\* Line 287 (the send on removeCh meets the receive of spin(), lines 340-341),
\* then lines 294-307 up to the first store call.
doneEnter(th, evtErr, customData, abort, buf, next) ==
  LET p == procOf(th)
      e == Handle(th) IN
  /\ rpc[p] = "select"
  /\ set' = [set EXCEPT ![p] = @ \ {e.Target}]
  /\ rpc' = [rpc EXCEPT ![p] = "update"]
  /\ rnow' = [rnow EXCEPT ![p] = now]
  /\ doneOn' = doneOn \cup {e.Target}
  /\ IF abort
       THEN /\ pc' = [pc EXCEPT ![th] = "d_abort"]
            /\ UNCHANGED <<evt, existing, rid, nextObjId>>
       ELSE /\ nextObjId <= MaxObjIds
            /\ SetHandle(th, Terminated(e, evtErr, customData, buf, now, nextObjId))
            /\ rid' = [rid EXCEPT ![th] = e.ID]
            /\ nextObjId' = nextObjId + 1
            /\ pc' = [pc EXCEPT ![th] = next]
  /\ args' = [args EXCEPT ![th] = [err |-> evtErr, data |-> customData, abort |-> abort,
                                   held |-> held[th] /\ ~InExpiry(th)]]
  /\ UNCHANGED <<store, clockVars, elapsed, logVars, i, tnow, attempts, opts>>

\* Event.DoneCustomData (lines 210-212).
DoneCustomData(th, evtErr, customData) ==
  /\ Call(th)
  /\ evt[th] # NoEvent
  /\ doneEnter(th, evtErr, customData, FALSE, logBuffer[th], "d_insert")
  /\ held' = [held EXCEPT ![th] = FALSE]
  /\ ret' = [ret EXCEPT ![th] = NoRet]

\* Event.Done (lines 206-208): no custom data.
Done(th, evtErr) == DoneCustomData(th, evtErr, "")

\* Line 287 when spin() is not in its select (it is in an Update, or no
\* spin() goroutine was started in this process): Done is entered and its send
\* on removeCh waits for a receiver.
doneWait(th, evtErr) ==
  /\ Call(th)
  /\ evt[th] # NoEvent
  /\ rpc[procOf(th)] # "select"
  /\ args' = [args EXCEPT ![th] = [err |-> evtErr, data |-> "", abort |-> FALSE,
                                   held |-> held[th]]]
  /\ ret' = [ret EXCEPT ![th] = NoRet]
  /\ pc' = [pc EXCEPT ![th] = "d_send"]
  /\ UNCHANGED <<store, clockVars, nextObjId, updaterVars, evt, logVars, held, existing, i, rid,
                 tnow, doneOn, attempts, opts>>

\* Line 287, the send of a waiting Done meets the receive of spin().
doneSend(th) ==
  /\ pc[th] = "d_send"
  /\ doneEnter(th, args[th].err, args[th].data, FALSE, logBuffer[th], "d_insert")
  /\ held' = [held EXCEPT ![th] = FALSE]
  /\ UNCHANGED <<ret, callVars>>

\* Event.SetLogWriter (lines 214-216), with a writer nothing was written to.
SetLogWriter(th) ==
  /\ Call(th)
  /\ evt[th] # NoEvent
  /\ logWriter' = [logWriter EXCEPT ![th] = [set |-> TRUE, out |-> ""]]
  /\ UNCHANGED <<store, clockVars, nextObjId, updaterVars, pc, evt, logBuffer, logged, held,
                 existing, i, rid, tnow, ret, doneOn, attempts, args, opts>>

\* Variant: the line goes to the logWriter when there is one, else to the
\* buffer.
Logf_Either(th, line) ==
  /\ Call(th)
  /\ evt[th] # NoEvent
  /\ IF logWriter[th].set
       THEN /\ logWriter' = [logWriter EXCEPT ![th].out = @ \o line \o "\n"]
            /\ UNCHANGED logBuffer
       ELSE /\ logBuffer' = [logBuffer EXCEPT ![th] = @ \o line \o "\n"]
            /\ UNCHANGED logWriter
  /\ logged' = [logged EXCEPT ![th] = Append(@, line)]
  /\ UNCHANGED <<store, clockVars, nextObjId, updaterVars, pc, evt, held, existing, i, rid, tnow,
                 ret, doneOn, attempts, args, opts>>

\* Event.Logf (lines 218-225): the line, with its newline, goes to the
\* logWriter when there is one (lines 221-223), and to the buffer of the
\* handle (line 224).
Logf(th, line) ==
  /\ Call(th)
  /\ evt[th] # NoEvent
  /\ logWriter' = [logWriter EXCEPT ![th].out =
                     IF logWriter[th].set THEN @ \o line \o "\n" ELSE @]
  /\ logBuffer' = [logBuffer EXCEPT ![th] = @ \o line \o "\n"]
  /\ logged' = [logged EXCEPT ![th] = Append(@, line)]
  /\ UNCHANGED <<store, clockVars, nextObjId, updaterVars, pc, evt, held, existing, i, rid, tnow,
                 ret, doneOn, attempts, args, opts>>

\* Event.Abort (lines 202-204).
Abort(th) ==
  /\ Call(th)
  /\ evt[th] # NoEvent
  /\ doneEnter(th, "", "", TRUE, logBuffer[th], "d_abort")
  /\ held' = [held EXCEPT ![th] = FALSE]
  /\ ret' = [ret EXCEPT ![th] = NoRet]

\* Line 373: existingEvt.Done(fmt.Errorf("event expired, ...")).
ExpireDone(th) ==
  /\ pc[th] = "x_done"
  /\ doneEnter(th, ErrExpired, "", FALSE, "", "x_insert")
  /\ UNCHANGED <<held, ret, callVars>>

\* Variant: Abort returns without removing the record.
doneAbort_Keep(th) ==
  /\ pc[th] = "d_abort"
  /\ store' = store
  /\ ret' = [ret EXCEPT ![th] = Ret("Abort", evt[th].Target,
                                     IF ById(evt[th].ID) = {} THEN "not found" ELSE "")]
  /\ pc' = [pc EXCEPT ![th] = "idle"]
  /\ UNCHANGED <<callVars, clockVars, nextObjId, updaterVars, evt, logVars, held, existing, i, rid, tnow, doneOn, attempts, opts>>
  /\ args' = [args EXCEPT ![th] = NoArgs]

\* Line 295: the RemoveId of Abort and its result.
doneAbort(th) ==
  /\ pc[th] = "d_abort"
  /\ store' = store \ ById(evt[th].ID)
  /\ ret' = [ret EXCEPT ![th] = Ret("Abort", evt[th].Target,
                                     IF ById(evt[th].ID) = {} THEN "not found" ELSE "")]
  /\ pc' = [pc EXCEPT ![th] = "idle"]
  /\ UNCHANGED <<callVars, clockVars, nextObjId, updaterVars, evt, logVars, held, existing, i, rid, tnow, doneOn, attempts, opts>>
  /\ args' = [args EXCEPT ![th] = NoArgs]

\* Variant: the active record is removed before the historical one is inserted.
doneInsert_RemoveFirst(th) ==
  /\ pc[th] \in {"d_insert", "x_insert"}
  /\ IF IsDup(Handle(th))
       THEN /\ store' = store \ ById(rid[th])
            /\ ret' = [ret EXCEPT ![th] = IF InExpiry(th) THEN @
                                           ELSE Ret("Done", evt[th].Target, "duplicate key")]
       ELSE /\ store' = (store \ ById(rid[th])) \cup {Handle(th)}
            /\ ret' = [ret EXCEPT ![th] = IF InExpiry(th) THEN @
                                           ELSE Ret("Done", evt[th].Target, "")]
  /\ pc' = [pc EXCEPT ![th] = IF InExpiry(th) THEN "x_remove" ELSE "d_remove"]
  /\ UNCHANGED <<callVars, clockVars, nextObjId, updaterVars, evt, logVars, held, existing, i, rid, tnow, doneOn, attempts, opts, args>>

\* Line 308: the Insert of the historical record; its error is what done returns.
doneInsert(th) ==
  /\ pc[th] \in {"d_insert", "x_insert"}
  /\ IF IsDup(Handle(th))
       THEN /\ store' = store
            /\ ret' = [ret EXCEPT ![th] = IF InExpiry(th) THEN @
                                           ELSE Ret("Done", evt[th].Target, "duplicate key")]
       ELSE /\ store' = store \cup {Handle(th)}
            /\ ret' = [ret EXCEPT ![th] = IF InExpiry(th) THEN @
                                           ELSE Ret("Done", evt[th].Target, "")]
  /\ pc' = [pc EXCEPT ![th] = IF InExpiry(th) THEN "x_remove" ELSE "d_remove"]
  /\ UNCHANGED <<callVars, clockVars, nextObjId, updaterVars, evt, logVars, held, existing, i, rid, tnow, doneOn, attempts, opts, args>>

\* Variant: done returns the error of the Insert without the deferred RemoveId.
doneInsertFail_NoRemove(th) ==
  /\ pc[th] \in {"d_insert", "x_insert"}
  /\ faults < MaxFaults
  /\ faults' = faults + 1
  /\ store' = store
  /\ ret' = [ret EXCEPT ![th] = IF InExpiry(th) THEN @
                                 ELSE Ret("Done", evt[th].Target, "store error")]
  /\ rid' = [rid EXCEPT ![th] = TargetId(NoTarget)]
  /\ IF InExpiry(th)
       THEN /\ i' = [i EXCEPT ![th] = @ + 1]
            /\ pc' = [pc EXCEPT ![th] = "n_insert"]
       ELSE /\ pc' = [pc EXCEPT ![th] = "idle"]
            /\ UNCHANGED i
  /\ args' = [args EXCEPT ![th] = NoArgs]
  /\ UNCHANGED <<calls, budget, lifeVars, handlerVars, checked, clockVars, nextObjId, updaterVars, evt, logVars, held, existing,
                 tnow, doneOn, attempts, opts>>

\* Line 308 when the store fails: nothing is written, the error is what done
\* returns (checkIsExpired drops it, line 373), and the deferred RemoveId of
\* line 306 is still to run.
doneInsertFail(th) ==
  /\ pc[th] \in {"d_insert", "x_insert"}
  /\ faults < MaxFaults
  /\ faults' = faults + 1
  /\ store' = store
  /\ ret' = [ret EXCEPT ![th] = IF InExpiry(th) THEN @
                                 ELSE Ret("Done", evt[th].Target, "store error")]
  /\ pc' = [pc EXCEPT ![th] = IF InExpiry(th) THEN "x_remove" ELSE "d_remove"]
  /\ UNCHANGED <<calls, budget, lifeVars, handlerVars, checked, clockVars, nextObjId, updaterVars, evt, logVars, held, existing,
                 i, rid, tnow, doneOn, attempts, opts, args>>

\* Variant: done returns without the deferred RemoveId.
doneRemove_Skip(th) ==
  /\ pc[th] \in {"d_remove", "x_remove"}
  /\ store' = store
  /\ rid' = [rid EXCEPT ![th] = TargetId(NoTarget)]
  /\ IF InExpiry(th)
       THEN /\ i' = [i EXCEPT ![th] = @ + 1]
            /\ pc' = [pc EXCEPT ![th] = "n_insert"]
       ELSE /\ pc' = [pc EXCEPT ![th] = "idle"]
            /\ UNCHANGED i
  /\ UNCHANGED <<callVars, clockVars, nextObjId, updaterVars, evt, logVars, held, existing, tnow, ret, doneOn, attempts, opts>>
  /\ args' = [args EXCEPT ![th] = NoArgs]

\* Line 306: the deferred RemoveId runs last, with the id the handle had
\* when the defer statement was executed.  Inside New, checkIsExpired then
\* returns true (line 374) and the loop of line 183 goes on.
doneRemove(th) ==
  /\ pc[th] \in {"d_remove", "x_remove"}
  /\ store' = store \ ById(rid[th])
  /\ rid' = [rid EXCEPT ![th] = TargetId(NoTarget)]
  /\ IF InExpiry(th)
       THEN /\ i' = [i EXCEPT ![th] = @ + 1]
            /\ pc' = [pc EXCEPT ![th] = "n_insert"]
       ELSE /\ pc' = [pc EXCEPT ![th] = "idle"]
            /\ UNCHANGED i
  /\ UNCHANGED <<callVars, clockVars, nextObjId, updaterVars, evt, logVars, held, existing, tnow, ret, doneOn, attempts, opts>>
  /\ args' = [args EXCEPT ![th] = NoArgs]

\* ---- TryCancel / AckCancel ----
\* Lines 228-245: the guard, and the time.Now() of the change document.
TryCancel(th) ==
  /\ Call(th)
  /\ evt[th] # NoEvent
  /\ IF ~evt[th].Cancelable \/ ~evt[th].Running
       THEN /\ ret' = [ret EXCEPT ![th] = Ret("TryCancel", evt[th].Target, "ErrNotCancelable")]
            /\ UNCHANGED <<pc, tnow>>
       ELSE /\ ret' = [ret EXCEPT ![th] = NoRet]
            /\ tnow' = [tnow EXCEPT ![th] = now]
            /\ pc' = [pc EXCEPT ![th] = "tc_apply"]
  /\ UNCHANGED <<store, clockVars, nextObjId, updaterVars, evt, logVars, held, existing, i, rid, doneOn, attempts, opts, args>>

\* Variant: the update of TryCancel also ends the event.
TryCancelApply_Stops(th) ==
  /\ pc[th] = "tc_apply"
  /\ \/ /\ ById(evt[th].ID) = {}
        /\ ret' = [ret EXCEPT ![th] = Ret("TryCancel", evt[th].Target, "ErrEventNotFound")]
        /\ UNCHANGED <<store, evt>>
     \/ \E r \in ById(evt[th].ID) :
          LET u == [r EXCEPT !.CancelInfo = [NoCancel EXCEPT !.Owner = th, !.Reason = "halt",
                                                             !.StartTime = tnow[th], !.Asked = TRUE],
                             !.Running = FALSE] IN
          /\ store' = (store \ {r}) \cup {u}
          /\ evt' = [evt EXCEPT ![th] = u]
          /\ ret' = [ret EXCEPT ![th] = Ret("TryCancel", evt[th].Target, "")]
  /\ tnow' = [tnow EXCEPT ![th] = ZeroTime]
  /\ pc' = [pc EXCEPT ![th] = "idle"]
  /\ UNCHANGED <<callVars, clockVars, nextObjId, updaterVars, logVars, held, existing, i, rid, doneOn, attempts, opts, args>>

\* Variant: the update is made and the handle keeps what it had.
TryCancelApply_NoLoad(th) ==
  /\ pc[th] = "tc_apply"
  /\ \/ /\ ById(evt[th].ID) = {}
        /\ ret' = [ret EXCEPT ![th] = Ret("TryCancel", evt[th].Target, "ErrEventNotFound")]
        /\ UNCHANGED <<store, evt>>
     \/ \E r \in ById(evt[th].ID) :
          LET u == [r EXCEPT !.CancelInfo = [NoCancel EXCEPT !.Owner = th, !.Reason = "halt",
                                                             !.StartTime = tnow[th], !.Asked = TRUE]] IN
          /\ store' = (store \ {r}) \cup {u}
          /\ evt' = evt
          /\ ret' = [ret EXCEPT ![th] = Ret("TryCancel", evt[th].Target, "")]
  /\ tnow' = [tnow EXCEPT ![th] = ZeroTime]
  /\ pc' = [pc EXCEPT ![th] = "idle"]
  /\ UNCHANGED <<callVars, clockVars, nextObjId, updaterVars, logVars, held, existing, i, rid, doneOn, attempts, opts, args>>

\* Lines 248-252: FindId(e.ID).Apply, ReturnNew into the handle.
TryCancelApply(th) ==
  /\ pc[th] = "tc_apply"
  /\ \/ /\ ById(evt[th].ID) = {}
        /\ ret' = [ret EXCEPT ![th] = Ret("TryCancel", evt[th].Target, "ErrEventNotFound")]
        /\ UNCHANGED <<store, evt>>
     \/ \E r \in ById(evt[th].ID) :
          LET u == [r EXCEPT !.CancelInfo = [NoCancel EXCEPT !.Owner = th, !.Reason = "halt",
                                                             !.StartTime = tnow[th], !.Asked = TRUE]] IN
          /\ store' = (store \ {r}) \cup {u}
          /\ evt' = [evt EXCEPT ![th] = u]
          /\ ret' = [ret EXCEPT ![th] = Ret("TryCancel", evt[th].Target, "")]
  /\ tnow' = [tnow EXCEPT ![th] = ZeroTime]
  /\ pc' = [pc EXCEPT ![th] = "idle"]
  /\ UNCHANGED <<callVars, clockVars, nextObjId, updaterVars, logVars, held, existing, i, rid, doneOn, attempts, opts, args>>

\* Lines 256-269.
AckCancel(th) ==
  /\ Call(th)
  /\ evt[th] # NoEvent
  /\ IF ~evt[th].Cancelable \/ ~evt[th].Running
       THEN /\ ret' = [ret EXCEPT ![th] = Ret("AckCancel", evt[th].Target, "ErrNotCancelable")]
            /\ UNCHANGED <<pc, tnow>>
       ELSE /\ ret' = [ret EXCEPT ![th] = NoRet]
            /\ tnow' = [tnow EXCEPT ![th] = now]
            /\ pc' = [pc EXCEPT ![th] = "ac_apply"]
  /\ UNCHANGED <<store, clockVars, nextObjId, updaterVars, evt, logVars, held, existing, i, rid, doneOn, attempts, opts, args>>

\* Variant: the query of AckCancel does not look at cancelinfo.asked.
AckCancelApply_Unasked(th) ==
  /\ pc[th] = "ac_apply"
  /\ LET m == ById(evt[th].ID) IN
     \/ /\ m = {}
        /\ ret' = [ret EXCEPT ![th] = Ret("AckCancel", evt[th].Target, "ErrEventNotFound")]
        /\ UNCHANGED <<store, evt>>
     \/ \E r \in m :
          LET u == [r EXCEPT !.CancelInfo.AckTime = tnow[th], !.CancelInfo.Canceled = TRUE] IN
          /\ store' = (store \ {r}) \cup {u}
          /\ evt' = [evt EXCEPT ![th] = u]
          /\ ret' = [ret EXCEPT ![th] = Ret("AckCancel", evt[th].Target, "")]
  /\ tnow' = [tnow EXCEPT ![th] = ZeroTime]
  /\ pc' = [pc EXCEPT ![th] = "idle"]
  /\ UNCHANGED <<callVars, clockVars, nextObjId, updaterVars, logVars, held, existing, i, rid, doneOn, attempts, opts, args>>

\* Lines 272-276: Find({_id, cancelinfo.asked: true}).Apply, ReturnNew into the handle.
AckCancelApply(th) ==
  /\ pc[th] = "ac_apply"
  /\ LET m == {r \in ById(evt[th].ID) : r.CancelInfo.Asked} IN
     \/ /\ m = {}
        /\ ret' = [ret EXCEPT ![th] = Ret("AckCancel", evt[th].Target, "ErrEventNotFound")]
        /\ UNCHANGED <<store, evt>>
     \/ \E r \in m :
          LET u == [r EXCEPT !.CancelInfo.AckTime = tnow[th], !.CancelInfo.Canceled = TRUE] IN
          /\ store' = (store \ {r}) \cup {u}
          /\ evt' = [evt EXCEPT ![th] = u]
          /\ ret' = [ret EXCEPT ![th] = Ret("AckCancel", evt[th].Target, "")]
  /\ tnow' = [tnow EXCEPT ![th] = ZeroTime]
  /\ pc' = [pc EXCEPT ![th] = "idle"]
  /\ UNCHANGED <<callVars, clockVars, nextObjId, updaterVars, logVars, held, existing, i, rid, doneOn, attempts, opts, args>>

\* ---- All ----
\* The order of the strings the targets are made of.
StrRank(str) == CASE str = "" -> 0 [] str = "a" -> 1 [] str = "app" -> 2 [] str = "b" -> 3

\* The order of the store on _id (line 142).  An id is what eventId.GetBSON
\* (lines 75-80) gives: the object id when there is one, else the document
\* {name, value} of the target.  Documents compare field by field, object ids
\* by value, and a document sorts before an object id.
IdLess(x, y) ==
  IF x.objId = 0 /\ y.objId = 0
    THEN \/ StrRank(x.target.Name) < StrRank(y.target.Name)
         \/ /\ x.target.Name = y.target.Name
            /\ StrRank(x.target.Value) < StrRank(y.target.Value)
    ELSE IF x.objId = 0 \/ y.objId = 0
      THEN x.objId = 0 /\ y.objId # 0
      ELSE x.objId < y.objId

\* Sort("-_id"): the records by descending id.
RECURSIVE SortDescById(_)
SortDescById(recs) ==
  IF recs = {} THEN <<>>
  ELSE LET m == CHOOSE x \in recs : \A y \in recs \ {x} : IdLess(y.ID, x.ID)
       IN <<m>> \o SortDescById(recs \ {m})

\* All (lines 135-148): every record of the collection, sorted on -_id.
All == SortDescById(store)

\* A caller without a handle takes one of the events All() returned as its
\* handle (a read, not counted in calls).
AllPick(th) ==
  /\ th \in Readers
  /\ pc[th] = "idle"
  /\ evt[th] = NoEvent
  /\ \E k \in DOMAIN All : evt' = [evt EXCEPT ![th] = All[k]]
  /\ logBuffer' = [logBuffer EXCEPT ![th] = ""]
  /\ logWriter' = [logWriter EXCEPT ![th] = NoWriter]
  /\ logged' = [logged EXCEPT ![th] = <<>>]
  /\ ret' = [ret EXCEPT ![th] = NoRet]
  /\ UNCHANGED <<store, callVars, clockVars, nextObjId, updaterVars, pc, held, existing, i, rid, tnow, doneOn, attempts, opts, args>>

\* ---- lockUpdater.spin ----
\* Line 344: the timer of the select fires.
SpinTick(p) ==
  /\ rpc[p] = "select"
  /\ elapsed[p] >= lockUpdateInterval
  /\ rpc' = [rpc EXCEPT ![p] = "update"]
  /\ rnow' = [rnow EXCEPT ![p] = now]
  /\ UNCHANGED <<store, callVars, clockVars, nextObjId, set, elapsed, pc, localVars>>

\* Lines 352-358: Update changes one document that matches {_id: {$in: set}},
\* whichever the store finds first, and fails when none matches.
SpinTargets(p) == {r \in store : \E t \in set[p] : r.ID = TargetId(t)}

SpinUpdate(p) ==
  /\ rpc[p] = "update"
  /\ \/ /\ SpinTargets(p) = {}
        /\ store' = store
     \/ \E r \in SpinTargets(p) :
          store' = (store \ {r}) \cup {[r EXCEPT !.LockUpdateTime = rnow[p]]}
  /\ rpc' = [rpc EXCEPT ![p] = "select"]
  /\ elapsed' = [elapsed EXCEPT ![p] = 0]
  /\ rnow' = [rnow EXCEPT ![p] = ZeroTime]
  /\ UNCHANGED <<callVars, clockVars, nextObjId, set, pc, localVars>>

\* Variant: the worker returns on a store error.
SpinUpdateFail_Dies(p) ==
  /\ rpc[p] = "update"
  /\ faults < MaxFaults
  /\ faults' = faults + 1
  /\ store' = store
  /\ rpc' = [rpc EXCEPT ![p] = "off"]
  /\ set' = [set EXCEPT ![p] = {}]
  /\ elapsed' = [elapsed EXCEPT ![p] = 0]
  /\ rnow' = [rnow EXCEPT ![p] = ZeroTime]
  /\ UNCHANGED <<calls, budget, lifeVars, handlerVars, checked, clockVars, nextObjId, pc, localVars>>

\* Lines 346-350 and 358-361 when the store fails (no connection, or an
\* Update that returns an error): the error is logged, nothing is written,
\* and the loop goes back to its select with the set it had.
SpinUpdateFail(p) ==
  /\ rpc[p] = "update"
  /\ faults < MaxFaults
  /\ faults' = faults + 1
  /\ store' = store
  /\ rpc' = [rpc EXCEPT ![p] = "select"]
  /\ elapsed' = [elapsed EXCEPT ![p] = 0]
  /\ rnow' = [rnow EXCEPT ![p] = ZeroTime]
  /\ UNCHANGED <<calls, budget, lifeVars, handlerVars, checked, clockVars, nextObjId, set, pc, localVars>>

\* ---- lockUpdater.start / lockUpdater.stop ----
\* The life of the spin() goroutine of a process, as New (line 151) and stop()
\* drive it: of New only its first statement, updater.start(), matters here.
\* Line 319: start() loads l.once.
start(th) ==
  /\ lpc[th] = "idle"
  /\ lcalls < MaxStarts
  /\ lcalls' = lcalls + 1
  /\ lonce' = [lonce EXCEPT ![th] = once[procOf(th)]]
  /\ lpc' = [lpc EXCEPT ![th] = "s_do"]
  /\ UNCHANGED <<eventVars, handlerVars, checked, once, onceDone, stopCh, spinning, nextId>>

\* Variant: start() starts a goroutine whatever the Once says.
startDo_Always(th) ==
  LET p == procOf(th) IN
  /\ lpc[th] = "s_do"
  /\ onceDone' = [onceDone EXCEPT ![p] = @ \cup {lonce[th]}]
  /\ stopCh' = [stopCh EXCEPT ![p] = nextId]
  /\ spinning' = [spinning EXCEPT ![p] = @ + 1]
  /\ nextId' = nextId + 1
  /\ lpc' = [lpc EXCEPT ![th] = "idle"]
  /\ UNCHANGED <<eventVars, handlerVars, checked, once, lonce, lcalls>>

\* Lines 319-322: Once.Do runs the function for the first caller of this Once
\* only: a fresh stopCh and a new spin() goroutine.
startDo(th) ==
  LET p == procOf(th) IN
  /\ lpc[th] = "s_do"
  /\ IF lonce[th] \in onceDone[p]
       THEN UNCHANGED <<onceDone, stopCh, spinning, nextId>>
       ELSE /\ onceDone' = [onceDone EXCEPT ![p] = @ \cup {lonce[th]}]
            /\ stopCh' = [stopCh EXCEPT ![p] = nextId]
            /\ spinning' = [spinning EXCEPT ![p] = @ + 1]
            /\ nextId' = nextId + 1
  /\ lpc' = [lpc EXCEPT ![th] = "idle"]
  /\ UNCHANGED <<eventVars, handlerVars, checked, once, lonce, lcalls>>

\* Lines 326-328: stop() returns when there is no stopCh.
stop(th) ==
  /\ lpc[th] = "idle"
  /\ lcalls < MaxStarts
  /\ lcalls' = lcalls + 1
  /\ lpc' = [lpc EXCEPT ![th] = IF stopCh[procOf(th)] = 0 THEN "idle" ELSE "t_send"]
  /\ UNCHANGED <<eventVars, handlerVars, checked, once, onceDone, stopCh, spinning, nextId, lonce>>

\* Line 329: the send on l.stopCh, as it is now, meets the receive of a
\* spin() goroutine in its select (line 342), which returns (line 343); on a
\* nil channel, or with no goroutine to receive, the send does not complete.
stopSend(th) ==
  LET p == procOf(th) IN
  /\ lpc[th] = "t_send"
  /\ stopCh[p] # 0
  /\ spinning[p] > 0
  /\ spinning' = [spinning EXCEPT ![p] = @ - 1]
  /\ lpc' = [lpc EXCEPT ![th] = "t_nil"]
  /\ UNCHANGED <<eventVars, handlerVars, checked, once, onceDone, stopCh, nextId, lonce, lcalls>>

\* Line 330.
stopNil(th) ==
  /\ lpc[th] = "t_nil"
  /\ stopCh' = [stopCh EXCEPT ![procOf(th)] = 0]
  /\ lpc' = [lpc EXCEPT ![th] = "t_once"]
  /\ UNCHANGED <<eventVars, handlerVars, checked, once, onceDone, spinning, nextId, lonce, lcalls>>

\* Line 331: a new sync.Once.
stopOnce(th) ==
  /\ lpc[th] = "t_once"
  /\ once' = [once EXCEPT ![procOf(th)] = nextId]
  /\ nextId' = nextId + 1
  /\ lpc' = [lpc EXCEPT ![th] = "idle"]
  /\ UNCHANGED <<eventVars, handlerVars, checked, onceDone, stopCh, spinning, lonce, lcalls>>

NextStart ==
  \/ \E th \in Threads : start(th)
  \/ \E th \in Threads : startDo(th)
  \/ \E th \in Threads : stop(th)
  \/ \E th \in Threads : stopSend(th)
  \/ \E th \in Threads : stopNil(th)
  \/ \E th \in Threads : stopOnce(th)

\* ---- api/app.go: appDelete and createApp ----
\* The handler returns e.  createApp has the named result err (line 245),
\* which a return statement sets before the deferred calls run; appDelete has
\* an unnamed result (line 69) and its variable err keeps its value.
hReturn(e, next) ==
  /\ hres' = e
  /\ herr' = IF hin.handler = "createApp" THEN e ELSE herr
  /\ hpc' = next

\* appDelete lines 70-73, createApp lines 254-273: what precedes the
\* permission checks and event.New.
hPre ==
  /\ hpc = "pre"
  /\ IF hin.preErr # ""
       THEN hReturn(hin.preErr, "returned")
       ELSE /\ hpc' = "perm"
            /\ UNCHANGED <<herr, hres>>
  /\ UNCHANGED <<eventVars, lifeVars, checked, hin, hdone>>

\* appDelete lines 74-82, createApp lines 260-265 and 274-280.
hPerm ==
  /\ hpc = "perm"
  /\ IF ~hin.allowed
       THEN hReturn("unauthorized", "returned")
       ELSE /\ hpc' = "new"
            /\ UNCHANGED <<herr, hres>>
  /\ UNCHANGED <<eventVars, lifeVars, checked, hin, hdone>>

\* Variant: the Done is deferred before the error of New is looked at.
hNew_DeferFirst ==
  /\ hpc = "new"
  /\ IF hin.newErr # ""
       THEN /\ hres' = hin.newErr
            /\ herr' = hin.newErr
            /\ hpc' = "defer"
       ELSE /\ herr' = ""
            /\ hpc' = "op"
            /\ UNCHANGED hres
  /\ UNCHANGED <<eventVars, lifeVars, checked, hin, hdone>>

\* appDelete lines 83-87, createApp lines 281-285: evt, err := event.New(...),
\* the return of its error, else the defer of evt.Done(err).
hNew ==
  /\ hpc = "new"
  /\ IF hin.newErr # ""
       THEN /\ hres' = hin.newErr
            /\ herr' = hin.newErr
            /\ hpc' = "returned"
       ELSE /\ herr' = ""
            /\ hpc' = "op"
            /\ UNCHANGED hres
  /\ UNCHANGED <<eventVars, lifeVars, checked, hin, hdone>>

\* createApp lines 289-312: the error that is returned for an error of
\* app.CreateApp.
Translate(e) ==
  CASE e = "validation" -> "http 400 validation"
    [] e = "no teams" -> "http 400 no teams"
    [] e = "already exists" -> "http 409 already exists"
    [] e = "quota" -> "http 403 quota"
    [] e = "invalid platform" -> "http 400 invalid platform"
    [] OTHER -> e

\* appDelete lines 92-96: err = app.Delete(...), then return nil.
\* createApp lines 286-313: err = app.CreateApp(...), and the return on error.
hOp ==
  /\ hpc = "op"
  /\ IF hin.handler = "appDelete"
       THEN /\ herr' = hin.opErr
            /\ hres' = ""
            /\ hpc' = "defer"
       ELSE IF hin.opErr # ""
         THEN hReturn(Translate(hin.opErr), "defer")
         ELSE /\ herr' = ""
              /\ hpc' = "repo"
              /\ UNCHANGED hres
  /\ UNCHANGED <<eventVars, lifeVars, checked, hin, hdone>>

\* createApp lines 314-317: repo, err := GetRepository(...).
hRepo ==
  /\ hpc = "repo"
  /\ IF hin.repoErr # ""
       THEN hReturn(hin.repoErr, "defer")
       ELSE /\ herr' = ""
            /\ hpc' = "marshal"
            /\ UNCHANGED hres
  /\ UNCHANGED <<eventVars, lifeVars, checked, hin, hdone>>

\* createApp lines 323-330: jsonMsg, err := json.Marshal(msg), return err or
\* the response and return nil.
hMarshal ==
  /\ hpc = "marshal"
  /\ hReturn(hin.marshalErr, "defer")
  /\ UNCHANGED <<eventVars, lifeVars, checked, hin, hdone>>

\* appDelete line 87, createApp line 285: the deferred func() { evt.Done(err) }
\* runs when the handler returns, with err as it is then.
hDefer ==
  /\ hpc = "defer"
  /\ hdone' = Append(hdone, herr)
  /\ hpc' = "returned"
  /\ UNCHANGED <<eventVars, lifeVars, checked, hin, herr, hres>>

NextHandler ==
  \/ hPre
  \/ hPerm
  \/ hNew
  \/ hOp
  \/ hRepo
  \/ hMarshal
  \/ hDefer

\* ---- the clock ----
\* One unit of time passes; the timer of every waiting select (line 344) runs.
Advance ==
  /\ now < MaxTime
  /\ now' = now + 1
  /\ elapsed' = [p \in Procs |->
                   IF rpc[p] = "select" /\ elapsed[p] < lockUpdateInterval
                     THEN elapsed[p] + 1 ELSE elapsed[p]]
  /\ UNCHANGED <<store, nextObjId, callVars, rpc, set, rnow, pc, localVars>>

\* No operation is under way and no updater is late for its tick.
Timely ==
  /\ \A th \in Threads : pc[th] = "idle"
  /\ \A p \in Procs : rpc[p] = "off" \/ (rpc[p] = "select" /\ elapsed[p] < lockUpdateInterval)

TickTimely ==
  /\ Timely
  /\ Advance
  /\ UNCHANGED lags

TickLag ==
  /\ ~Timely
  /\ lags < MaxLag
  /\ lags' = lags + 1
  /\ Advance

CallerStep(th) ==
  \/ \E t \in TargetsOf(th), c \in CancelableOf(th) : NewStart(th, t, c)
  \/ NewInsert(th)
  \/ NewAdd(th)
  \/ NewCheck(th)
  \/ NewFind(th)
  \/ ExpireDone(th)
  \/ \E e \in ErrorsOf(th) : Done(th, e)
  \/ Abort(th)
  \/ doneAbort(th)
  \/ doneInsert(th)
  \/ doneRemove(th)
  \/ TryCancel(th)
  \/ TryCancelApply(th)
  \/ AckCancel(th)
  \/ AckCancelApply(th)
  \/ AllPick(th)

Step ==
  \/ \E th \in Threads : CallerStep(th)
  \/ \E p \in Procs : SpinTick(p)
  \/ \E p \in Procs : SpinUpdate(p)

Next ==
  \/ Step
  \/ TickTimely
  \/ TickLag

NextTimely ==
  \/ Step
  \/ TickTimely

\* Calls that do not overlap: a caller moves only while no other caller is
\* inside a call, and the clock advances between calls.
Solo(th) == \A o \in Threads \ {th} : pc[o] = "idle"

NextSerial ==
  \/ \E th \in Threads : Solo(th) /\ CallerStep(th)
  \/ \E p \in Procs : SpinTick(p)
  \/ \E p \in Procs : SpinUpdate(p)
  \/ TickTimely

\* Calls that do not overlap, with a store whose Insert can fail and callers
\* whose opts can be invalid.
NextFault ==
  \/ NextSerial
  \/ \E th \in Threads : Solo(th) /\ NewInsertFail(th)
  \/ \E th \in Threads : Solo(th) /\ \E o \in BadOptsOf(th) : NewCall(th, o)
  \/ \E th \in Threads : Solo(th) /\ NewReject(th)

\* Calls that do not overlap, with a store that can fail under the updater
\* and under the Insert of done().
NextRenew ==
  \/ NextSerial
  \/ \E p \in Procs : SpinUpdateFail(p)
  \/ \E th \in Threads : Solo(th) /\ doneInsertFail(th)

\* The callers of one process, one call at a time.
Local == {th \in Threads : procOf(th) = "p1"}

\* What these callers also do: they log, and they end with an error or with
\* custom data.
LinesOf(th) == {"step"}
DoneArgsOf(th) == {<<"failed", "">>, <<"", "data">>}

NextLocal ==
  \/ \E th \in Local : Solo(th) /\ CallerStep(th)
  \/ \E th \in Local : Solo(th) /\ \E l \in LinesOf(th) : Logf(th, l)
  \/ \E th \in Local : Solo(th) /\ \E d \in DoneArgsOf(th) : DoneCustomData(th, d[1], d[2])
  \/ \E p \in Procs : SpinTick(p)
  \/ \E p \in Procs : SpinUpdate(p)
  \/ TickTimely

\* One caller that logs: it may give its handle a logWriter, and it logs
\* either of two lines.
LogLines == {"step", "pull"}

NextLog ==
  \/ NewStart("a", T1, TRUE)
  \/ NewInsert("a")
  \/ NewAdd("a")
  \/ doneInsert("a")
  \/ doneRemove("a")
  \/ SetLogWriter("a")
  \/ \E l \in LogLines : Logf("a", l)
  \/ \E d \in DoneArgsOf("a") : DoneCustomData("a", d[1], d[2])
  \/ \E p \in Procs : SpinTick(p)
  \/ \E p \in Procs : SpinUpdate(p)
  \/ TickTimely

\* A holder whose lease runs out: "a" takes T1 and later ends its event, "b"
\* takes T2 in the same process, "c" asks for T1 from another process; one
\* call at a time.
NextStale ==
  \/ Solo("a") /\ NewStart("a", T1, TRUE)
  \/ Solo("a") /\ Done("a", "")
  \/ Solo("a") /\ Abort("a")
  \/ Solo("b") /\ NewStart("b", T2, FALSE)
  \/ Solo("c") /\ NewStart("c", T1, FALSE)
  \/ \E th \in Threads : Solo(th) /\ NewInsert(th)
  \/ \E th \in Threads : Solo(th) /\ NewAdd(th)
  \/ \E th \in Threads : Solo(th) /\ NewCheck(th)
  \/ \E th \in Threads : Solo(th) /\ NewFind(th)
  \/ \E th \in Threads : Solo(th) /\ ExpireDone(th)
  \/ \E th \in Threads : Solo(th) /\ doneAbort(th)
  \/ \E th \in Threads : Solo(th) /\ doneInsert(th)
  \/ \E th \in Threads : Solo(th) /\ doneRemove(th)
  \/ \E p \in Procs : SpinTick(p)
  \/ \E p \in Procs : SpinUpdate(p)
  \/ TickTimely

\* Callers whose Done can be entered while the updater is not receiving.
NextLive ==
  \/ Next
  \/ \E th \in Threads : \E e \in ErrorsOf(th) : doneWait(th, e)
  \/ \E th \in Threads : doneSend(th)

\* Every caller inside a call and every started updater goes on running.
Fairness ==
  /\ \A th \in Threads :
       WF_vars(pc[th] # "idle" /\ (CallerStep(th) \/ doneSend(th)))
  /\ \A p \in Procs : WF_vars(SpinTick(p) \/ SpinUpdate(p))

Spec == Init /\ [][Next]_vars

SpecLive == InitExpired /\ [][NextLive]_vars /\ Fairness

SpecStale == InitLocal /\ [][NextStale]_vars

SpecLocal == InitLocal /\ [][NextLocal]_vars

SpecFault == Init /\ [][NextFault]_vars

SpecTimely == Init /\ [][NextTimely]_vars

SpecSerial == Init /\ [][NextSerial]_vars

SpecRenew == Init /\ [][NextRenew]_vars

SpecStart == Init /\ [][NextStart]_vars

\* ---- eventtest: the HasEvent checker ----
\* An unanchored $regex with a pattern of plain characters: the text holds the
\* pattern.
Contains(text, pat) ==
  \E k \in 1..(Len(text) - Len(pat) + 1) : SubSeq(text, k, k + Len(pat) - 1) = pat

\* hasEventChecker.Check lines 46-67: the query.  target, kind, owner and
\* running=false always; the custom data, the log and the error only when the
\* description gives them.
Query(desc, r) ==
  /\ r.Target = desc.Target
  /\ r.Kind = desc.Kind
  /\ r.Owner = desc.Owner
  /\ r.Running = FALSE
  /\ desc.StartCustomData # "" => r.StartCustomData = desc.StartCustomData
  /\ desc.EndCustomData # "" => r.EndCustomData = desc.EndCustomData
  /\ desc.LogMatches # "" => Contains(r.Log, desc.LogMatches)
  /\ desc.ErrorMatches # "" => Contains(r.Error, desc.ErrorMatches)

\* Variant: any number of matching records will do.
Check_Some(desc, recs) ==
  LET n == Cardinality({r \in recs : Query(desc, r)}) IN
    IF n = 0 THEN [desc |-> desc, ok |-> FALSE, msg |-> "Event not found"]
    ELSE [desc |-> desc, ok |-> TRUE, msg |-> ""]

\* hasEventChecker.Check lines 68-81: the count of the matching records, and
\* the answer.
Check(desc, recs) ==
  LET n == Cardinality({r \in recs : Query(desc, r)}) IN
    IF n = 0 THEN [desc |-> desc, ok |-> FALSE, msg |-> "Event not found"]
    ELSE IF n > 1 THEN [desc |-> desc, ok |-> FALSE, msg |-> "Multiple events match query"]
    ELSE [desc |-> desc, ok |-> TRUE, msg |-> ""]

\* The descriptions a test gives: an event of kind app.deploy on T1, of the
\* caller with at most one of the optional filters, or of another owner.
Descs ==
  {d \in [Target : {T1}, Kind : {"app.deploy"}, Owner : {"a", "b"},
          StartCustomData : {"", "start"}, EndCustomData : {"", "data"},
          LogMatches : {"", "step"}, ErrorMatches : {"", "failed"}] :
     LET given == {f \in {"StartCustomData", "EndCustomData", "LogMatches", "ErrorMatches"} :
                     d[f] # ""}
     IN Cardinality(given) <= (IF d.Owner = "a" THEN 1 ELSE 0)}

\* A test checks HasEvent on the collection as it is.
HasEvent(desc) ==
  /\ \A th \in Threads : pc[th] = "idle"
  /\ checked' = [odd |-> ~checked.odd, answer |-> Check(desc, store)]
  /\ UNCHANGED <<eventVars, lifeVars, handlerVars>>

\* A test: one caller takes events on T1, logs, ends them with an error or
\* with custom data or aborts them, and HasEvent is checked between the calls.
NextCheck ==
  \/ NewStart("a", T1, TRUE)
  \/ NewInsert("a")
  \/ NewAdd("a")
  \/ Logf("a", "step")
  \/ \E d \in DoneArgsOf("a") : DoneCustomData("a", d[1], d[2])
  \/ Abort("a")
  \/ doneAbort("a")
  \/ doneInsert("a")
  \/ doneRemove("a")
  \/ \E p \in Procs : SpinTick(p)
  \/ \E p \in Procs : SpinUpdate(p)
  \/ TickTimely
  \/ \E desc \in Descs : HasEvent(desc)

InitLog == Start(MaxCalls + 2)

SpecLog == InitLog /\ [][NextLog]_vars

SpecCheck == InitLocal /\ [][NextCheck]_vars

SpecHandler == InitHandler /\ [][NextHandler]_vars

SpecExpired == InitExpired /\ [][Next]_vars

\* ---- properties ----
Running(t) == ById(TargetId(t))
Historical == {r \in store : ~r.Running}
\* The callers that came out of New with the lock on t: the insert succeeded
\* and Done/Abort was not called since.
Winners(t) == {th \in Threads : evt[th].Target = t /\ (held[th] \/ pc[th] = "n_add")}
Returned(th, op) == pc[th] = "idle" /\ ret[th].op = op
Failed(th, t) == Returned(th, "New") /\ ret[th].target = t /\ ret[th].err # ""

\* C1: as long as nobody has entered Done, Abort or an expiry reclamation on a
\* target, at most one of the New calls on it has won, and every New call on
\* it that returned without a handle returned ErrEventLocked, carrying the
\* record of the one caller that won.
C1_OneWinner ==
  \A t \in Targets \ doneOn :
    /\ Cardinality(Winners(t)) <= 1
    /\ \A th \in Threads :
         Failed(th, t) =>
           /\ ret[th].err = "ErrEventLocked"
           /\ Winners(t) = {ret[th].event.Owner}

\* Three callers, two of them in one process, called New on one target: one
\* holds the handle, the other two have returned ErrEventLocked.
C1_Witness ==
  \E t \in Targets \ doneOn : \E w \in Threads :
    /\ held[w] /\ evt[w].Target = t /\ Returned(w, "New")
    /\ \A l \in Threads \ {w} : Failed(l, t) /\ ret[l].err = "ErrEventLocked"

\* C2 (I1): for every target there is at most one record whose id is the target.
C2_I1 == \A t \in Targets : Cardinality(Running(t)) <= 1

\* One record has the target as its id while the inserts of two other
\* callers on that target have just been refused by the store.
C2_Witness ==
  \E t \in Targets : \E th1, th2 \in Threads :
    /\ Cardinality(Running(t)) = 1
    /\ th1 # th2
    /\ pc[th1] = "n_check" /\ evt[th1].Target = t
    /\ pc[th2] = "n_check" /\ evt[th2].Target = t

\* C3 as claimed: New makes a second insert attempt only after it reclaimed an
\* expired record; on a target whose record is not expired there is none.
C3_NoSecondAttempt ==
  \A th \in Threads : (pc[th] = "n_insert" /\ i[th] > 0) => existing[th] # NoEvent

\* C3 as amended: a refused insert and the lookups that follow it leave the
\* store unchanged; after the first lookup New makes its second insert
\* attempt; after the second one New returns, and when the record is still
\* there it returns ErrEventLocked carrying that record.
C3_Locked ==
  [][\A th \in Threads :
       /\ (pc[th] \in {"n_insert", "n_check"} /\ pc'[th] # pc[th]
             /\ pc'[th] \in {"n_check", "n_find"}) =>
            store' = store
       /\ (pc[th] = "n_find" /\ pc'[th] # "n_find") =>
            /\ store' = store
            /\ i[th] < maxRetries => pc'[th] = "n_insert" /\ i'[th] = i[th] + 1
            /\ i[th] >= maxRetries =>
                 /\ pc'[th] = "idle"
                 /\ \A r \in Running(evt[th].Target) :
                      ret'[th] = [op |-> "New", target |-> evt[th].Target,
                                  err |-> "ErrEventLocked", event |-> r]]_vars

\* New has returned ErrEventLocked after two insert attempts, none of them after
\* a reclamation, and the record it carries is still the one in the store.
C3_Witness ==
  \E th \in Threads :
    /\ Returned(th, "New") /\ ret[th].err = "ErrEventLocked"
    /\ i[th] = maxRetries
    /\ ret[th].target \notin doneOn
    /\ ret[th].event \in store

\* C4: when calls do not overlap, a New that found the record of its target
\* expired gets the lock at its second attempt; when it has inserted, the
\* store holds exactly one historical record of the stale event (opaque id,
\* running=false, error "event expired...") and exactly one record whose id is
\* the target, which is running and owned by the caller.
C4_Reclaim ==
  \A th \in Threads :
    (existing[th] # NoEvent /\ pc[th] \in {"n_insert", "n_add"}) =>
      LET t == evt[th].Target
          stale == existing[th] IN
      /\ pc[th] = "n_insert" => Running(t) = {}
      /\ pc[th] = "n_add" =>
           /\ {h \in Historical : /\ h.Target = t
                                  /\ h.Owner = stale.Owner
                                  /\ h.StartTime = stale.StartTime} = {stale}
           /\ stale.Error = ErrExpired /\ stale.ID.objId # 0
           /\ \E r \in store : Running(t) = {r} /\ r.Running /\ r.Owner = th

\* A New that reclaimed an expired record has returned its handle.
C4_Witness ==
  \E th \in Threads :
    /\ held[th] /\ Returned(th, "New") /\ ret[th].err = ""
    /\ \E h \in Historical : h.Target = evt[th].Target /\ h.Error = ErrExpired
    /\ \E r \in Running(evt[th].Target) : r.Owner = th

\* C5 (I2): a record is running iff its id is a target pair, and not running
\* iff its id is an opaque token.
IsTargetId(id) == id.objId = 0 /\ id.target \in Targets
IsObjectId(id) == id.objId # 0 /\ id.target = NoTarget

C5_I2 ==
  \A r \in store :
    /\ r.Running <=> IsTargetId(r.ID)
    /\ ~r.Running <=> IsObjectId(r.ID)

\* The store holds a running record and the historical record of an event
\* that Done terminated.
C5_Witness ==
  /\ \E r \in store : r.Running
  /\ \E h \in Historical : h.Error = ""

\* C6 (I4): a historical record stays in the store, with the same field values,
\* whatever step is taken.
C6_I4 == [][\A h \in Historical : h \in store']_vars

\* C7 (I5): a record with canceled=true has asked=true and ackTime >= startTime.
C7_I5 ==
  \A r \in store :
    r.CancelInfo.Canceled =>
      r.CancelInfo.Asked /\ r.CancelInfo.AckTime >= r.CancelInfo.StartTime

\* C8 (I3): no step moves the lockUpdateTime of a running record backward.
C8_I3 ==
  [][\A r \in store : \A u \in store' :
       (r.Running /\ u.Running /\ u.ID = r.ID) => u.LockUpdateTime >= r.LockUpdateTime]_vars

\* C9: the Update of an updater iteration sets the lockUpdateTime of every
\* target of its set that has a record to the time of the iteration.
C9_AllRenewed ==
  [][\A p \in Procs :
       (rpc[p] = "update" /\ rpc'[p] = "select") =>
         \A t \in set[p] : \A u \in store' :
           u.ID = TargetId(t) => u.LockUpdateTime = rnow[p]]_vars

\* C10: with every updater on time, the record of a target that a caller
\* holds is never expired.
C10_NeverExpired ==
  \A th \in Threads :
    held[th] => \A r \in Running(evt[th].Target) : ~Expired(r, now)

\* C11: a call of New makes at most maxRetries+1 = 2 Insert calls, and once
\* an Insert has succeeded the call makes no other one: it hands the target
\* to the updater and returns.
C11_TwoAttempts ==
  [][\A th \in Threads :
       /\ attempts'[th] <= maxRetries + 1
       /\ pc[th] = "n_add" => /\ pc'[th] \in {"n_add", "idle"}
                              /\ attempts'[th] = attempts[th]
       /\ attempts'[th] = attempts[th] + 1 => pc[th] = "n_insert" /\ i[th] = attempts[th]]_vars

\* A New has made its two attempts and returned without the lock.
C11_Witness ==
  \E th \in Threads : attempts[th] = maxRetries + 1 /\ Failed(th, ret[th].target)

\* C12: when an Insert of New fails with a store error that is no duplicate
\* key, New returns at once, with that error.
C12_Verbatim ==
  [][\A th \in Threads :
       (pc[th] = "n_insert" /\ faults' = faults + 1) =>
         pc'[th] = "idle" /\ ret'[th] = Ret("New", evt[th].Target, "store error")]_vars

\* C13: a New whose opts are nil, or have a target without name or value, no
\* kind or no owner, returns ErrNoOpts, ErrNoTarget, ErrNoKind or ErrNoOwner,
\* the first of these that applies, and no step of the call changes the
\* store or the set of an updater.
C13_Validation ==
  [][\A th \in Threads :
       /\ (pc'[th] # pc[th] /\ "n_valid" \in {pc[th], pc'[th]}) =>
            /\ store' = store
            /\ set' = set
       /\ (pc[th] = "n_valid" /\ pc'[th] # "n_valid") =>
            LET o == opts[th] IN
            /\ pc'[th] = "idle"
            /\ ret'[th].op = "New"
            /\ ~held'[th]
            /\ o.Nil => ret'[th].err = "ErrNoOpts"
            /\ (~o.Nil /\ (o.Target.Name = "" \/ o.Target.Value = "")) =>
                 ret'[th].err = "ErrNoTarget"
            /\ (~o.Nil /\ o.Target.Name # "" /\ o.Target.Value # "" /\ o.Kind = "") =>
                 ret'[th].err = "ErrNoKind"
            /\ (~o.Nil /\ o.Target.Name # "" /\ o.Target.Value # "" /\ o.Kind # ""
                  /\ o.Owner = "") =>
                 ret'[th].err = "ErrNoOwner"]_vars

\* New has refused opts that lack both the kind and the owner, with events in the store.
C13_Witness ==
  \E th \in Threads : Returned(th, "New") /\ ret[th].err = "ErrNoKind" /\ store # {}

\* C14: the step in which New returns a handle is the step in which the
\* updater of the caller's process, waiting in its select, receives the
\* target from addCh: the target is in its set when the caller has the handle.
C14_HandedOver ==
  [][\A th \in Threads :
       (held'[th] /\ ~held[th]) =>
         /\ pc[th] = "n_add" /\ pc'[th] = "idle"
         /\ ret'[th] = Ret("New", evt[th].Target, "")
         /\ rpc[procOf(th)] = "select" /\ rpc'[procOf(th)] = "update"
         /\ evt[th].Target \in set'[procOf(th)]]_vars

\* A New has just returned its handle; the updater holds the target and is
\* on its way to the store.
C14_Witness ==
  \E th \in Threads :
    /\ held[th] /\ Returned(th, "New") /\ ret[th].err = ""
    /\ rpc[procOf(th)] = "update"
    /\ evt[th].Target \in set[procOf(th)]

\* C15: the target of every handle that came from a successful New and was
\* not given to Done or Abort is in the set of the updater of its process.
C15_Registered ==
  \A th \in Threads : held[th] => evt[th].Target \in set[procOf(th)]

\* Where a caller is once done() has sent on removeCh.
DonePcs == {"d_abort", "d_insert", "d_remove", "x_insert", "x_remove"}

\* C16: the step in which Done, Abort or an expiry reclamation enters done()
\* leaves the store as it is and takes the target out of the set of the
\* updater of that process; a target enters a set only when a New returns
\* its handle; and an updater changes lockUpdateTime only on records of the
\* targets in its set.
C16_RemoveFirst ==
  [][/\ \A th \in Threads :
          (pc[th] \notin DonePcs /\ pc'[th] \in DonePcs) =>
            /\ store' = store
            /\ Handle(th).Target \notin set'[procOf(th)]
     /\ \A p \in Procs : \A t \in set'[p] \ set[p] :
          \E th \in Threads : /\ procOf(th) = p /\ evt[th].Target = t
                               /\ pc[th] = "n_add" /\ pc'[th] = "idle"
     /\ \A p \in Procs :
          (rpc[p] = "update" /\ rpc'[p] = "select") =>
            \A r \in store \ store' : r.Target \in set[p] /\ r.Running]_vars

\* Done or Abort has sent the target of a held handle to the updater and has
\* not yet touched the store: the running record is there, the target is
\* out of the set and the updater is on its way to the store.
C16_Witness ==
  \E th \in Threads :
    /\ pc[th] \in {"d_abort", "d_insert"} /\ args[th].held
    /\ Running(evt[th].Target) # {}
    /\ evt[th].Target \notin set[procOf(th)]
    /\ rpc[procOf(th)] = "update"

\* C17 as stated: while a Done is under way on a held handle there is no
\* store state that holds both the active record and its historical twin.
C17_NeverBoth ==
  \A th \in Threads :
    (pc[th] \in {"d_insert", "d_remove"} /\ args[th].held) =>
      ~(evt[th] \in store /\ ById(rid[th]) # {})

\* C17 as amended: done() enters without touching the store; its first store
\* call is the Insert of the historical record, under a fresh ObjectId and
\* with running=false, which removes nothing; its second is the RemoveId of
\* the id the handle had on entry, which inserts nothing.
C17_InsertFirst ==
  [][\A th \in Threads :
       /\ (pc[th] \notin {"d_insert", "x_insert"} /\ pc'[th] \in {"d_insert", "x_insert"}) =>
            store' = store
       /\ (pc[th] \in {"d_insert", "x_insert"} /\ pc'[th] # pc[th]) =>
            /\ pc'[th] = (IF pc[th] = "d_insert" THEN "d_remove" ELSE "x_remove")
            /\ IsObjectId(Handle(th).ID) /\ ~Handle(th).Running
            /\ store' = store \cup {Handle(th)}
            /\ ById(rid[th]) \subseteq store'
       /\ (pc[th] \in {"d_remove", "x_remove"} /\ pc'[th] # pc[th]) =>
            store' = store \ ById(rid[th])]_vars

\* A Done on a held handle has inserted the historical record and has not yet
\* removed the active one: the store holds both.
C17_Witness ==
  \E th \in Threads :
    /\ pc[th] = "d_remove" /\ args[th].held
    /\ evt[th] \in store /\ ~evt[th].Running
    /\ ById(rid[th]) # {} /\ IsTargetId(rid[th])

\* C18: the record that Done or DoneCustomData inserts for a held handle has
\* running=false, endTime >= startTime, the custom data and the buffered log
\* of the call, as error the message of the error given, else "canceled by
\* user request" when the handle is canceled, else nothing; and the kind,
\* owner, target, start time and start custom data of the active record that
\* this caller's New created.
C18_Historical ==
  [][\A th \in Threads :
       (pc[th] = "d_insert" /\ pc'[th] = "d_remove" /\ args[th].held) =>
         \E r \in store' \ store :
           /\ ~r.Running
           /\ r.EndTime >= r.StartTime
           /\ r.EndCustomData = args[th].data
           /\ r.Log = logBuffer[th]
           /\ args[th].err # "" => r.Error = args[th].err
           /\ (args[th].err = "" /\ evt[th].CancelInfo.Canceled) =>
                r.Error = "canceled by user request"
           /\ (args[th].err = "" /\ ~evt[th].CancelInfo.Canceled) => r.Error = ""
           /\ \A a \in ById(rid[th]) :
                a.Owner = th =>
                  /\ r.Kind = a.Kind /\ r.Owner = a.Owner /\ r.Target = a.Target
                  /\ r.StartTime = a.StartTime /\ r.StartCustomData = a.StartCustomData]_vars

\* The store holds the historical record of an event whose holder accepted a
\* cancel request and then called Done without an error.
C18_Witness ==
  \E r \in store :
    /\ ~r.Running /\ r.CancelInfo.Canceled /\ r.Error = "canceled by user request"
    /\ r.StartCustomData = "start" /\ r.EndTime >= r.StartTime

\* C19: when Done or Abort returns on a held handle, the store holds no
\* record whose id is the target of the handle; the Done leaves the
\* historical record of the event, which alone is in the store when New and
\* Done(nil) were the only calls; and the Insert of a New that finds no
\* record under its target succeeds.
C19_Released ==
  [][\A th \in Threads :
       /\ (pc[th] \in {"d_remove", "d_abort"} /\ pc'[th] = "idle" /\ args[th].held) =>
            {r \in store' : r.ID = TargetId(evt[th].Target)} = {}
       /\ (pc[th] = "d_remove" /\ pc'[th] = "idle" /\ args[th].held) =>
            /\ evt[th] \in store' /\ ~evt[th].Running
            /\ (args[th].err = "" /\ ~evt[th].CancelInfo.Canceled) => evt[th].Error = ""
            /\ calls = 2 => store' = {evt[th]}
       /\ (pc[th] = "n_insert" /\ pc'[th] # "n_insert" /\ Running(evt[th].Target) = {}) =>
            /\ pc'[th] = "n_add"
            /\ {r \in store' : r.ID = TargetId(evt[th].Target)} = {evt[th]}]_vars

\* After a New and a Done(nil) on a target, the next New on it holds the
\* target: the store has the historical record and the new active one.
C19_Witness ==
  \E th \in Threads :
    /\ held[th] /\ calls = 3
    /\ \E r \in store : ~r.Running /\ r.Target = evt[th].Target /\ r.Error = ""
    /\ Cardinality(store) = 2

\* C20: the store call of an Abort on a held handle removes the records
\* whose id is the target and nothing else, and adds nothing, so that no
\* historical record is written; the target is then out of the set of the
\* updater; and after a New and an Abort that were the only calls the store
\* is empty again.
C20_NoTrace ==
  [][\A th \in Threads :
       (pc[th] = "d_abort" /\ pc'[th] = "idle" /\ args[th].held) =>
         /\ store' = store \ Running(evt[th].Target)
         /\ {r \in store' : ~r.Running} = Historical
         /\ evt[th].Target \notin set'[procOf(th)]
         /\ Running(evt[th].Target) # {} => ret'[th] = Ret("Abort", evt[th].Target, "")
         /\ calls = 2 => store' = {}]_vars

\* A New and an Abort were the only calls: the Abort has returned without an
\* error, the store is empty and the updater, started by New, has no target.
C20_Witness ==
  \E th \in Threads :
    /\ calls = 2 /\ Returned(th, "Abort") /\ ret[th].err = ""
    /\ store = {}
    /\ rpc[procOf(th)] # "off" /\ set[procOf(th)] = {}

\* The cancelInfo a TryCancel of caller th writes: the owner and reason of the
\* call, the time read by the call, asked, and nothing acknowledged.
Asked(th, tm) ==
  [Owner |-> th, StartTime |-> tm, AckTime |-> ZeroTime, Reason |-> "halt",
   Asked |-> TRUE, Canceled |-> FALSE]

\* C21: a TryCancel on a handle that is not cancelable or not running returns
\* ErrNotCancelable and leaves the store as it was, and only a cancelable,
\* running handle reaches the store call; that call, when no record has the
\* target as id, returns ErrEventNotFound and changes neither store nor
\* handle, and otherwise replaces the cancelInfo of that record by {owner,
\* reason, startTime = the time of the call, asked} in one step, changes no
\* other record, loads the updated record into the handle and returns nil.
C21_TryCancel ==
  [][\A th \in Threads :
       LET id == TargetId(evt[th].Target) IN
       /\ (pc[th] = "idle" /\ pc'[th] = "idle" /\ calls' = calls + 1
              /\ ret'[th] # ret[th] /\ ret'[th].op = "TryCancel") =>
            /\ ~evt[th].Cancelable \/ ~evt[th].Running
            /\ ret'[th].err = "ErrNotCancelable"
            /\ store' = store /\ evt'[th] = evt[th]
       /\ (pc[th] = "idle" /\ pc'[th] = "tc_apply") =>
            /\ evt[th].Cancelable /\ evt[th].Running
            /\ store' = store /\ tnow'[th] = now
       /\ (pc[th] = "tc_apply" /\ pc'[th] = "idle") =>
            IF ById(id) = {}
              THEN /\ ret'[th] = Ret("TryCancel", evt[th].Target, "ErrEventNotFound")
                   /\ store' = store /\ evt'[th] = evt[th]
              ELSE \E r \in ById(id) :
                     LET u == [r EXCEPT !.CancelInfo = Asked(th, tnow[th])] IN
                     /\ store' = (store \ {r}) \cup {u}
                     /\ evt'[th] = u
                     /\ ret'[th] = Ret("TryCancel", evt[th].Target, "")]_vars

\* A TryCancel by a caller that is not the holder has returned nil: the
\* record of the target in the store carries the request and is what the
\* handle holds.
C21_Witness ==
  \E th \in Threads :
    /\ Returned(th, "TryCancel") /\ ret[th].err = ""
    /\ evt[th] \in Running(evt[th].Target)
    /\ evt[th].Owner # th
    /\ evt[th].CancelInfo = Asked(th, evt[th].CancelInfo.StartTime)

\* C22: an AckCancel on a handle that is not cancelable or not running
\* returns an error and leaves the store as it was, and only a cancelable,
\* running handle reaches the store call; that call changes the store only
\* when the record whose id is the target has cancelInfo.asked: it then sets
\* canceled and ackTime = the time of the call on that record and on nothing
\* else, loads the updated record into the handle and returns nil; when the
\* record is absent or no cancel was asked it returns ErrEventNotFound and
\* changes neither store nor handle.
C22_AckCancel ==
  [][\A th \in Threads :
       LET id == TargetId(evt[th].Target) IN
       /\ (pc[th] = "idle" /\ pc'[th] = "idle" /\ calls' = calls + 1
              /\ ret'[th] # ret[th] /\ ret'[th].op = "AckCancel") =>
            /\ ~evt[th].Cancelable \/ ~evt[th].Running
            /\ ret'[th].err # ""
            /\ store' = store /\ evt'[th] = evt[th]
       /\ (pc[th] = "idle" /\ pc'[th] = "ac_apply") =>
            /\ evt[th].Cancelable /\ evt[th].Running
            /\ store' = store /\ tnow'[th] = now
       /\ (pc[th] = "ac_apply" /\ pc'[th] = "idle") =>
            IF \A r \in ById(id) : ~r.CancelInfo.Asked
              THEN /\ ret'[th] = Ret("AckCancel", evt[th].Target, "ErrEventNotFound")
                   /\ store' = store /\ evt'[th] = evt[th]
              ELSE \E r \in ById(id) :
                     LET u == [r EXCEPT !.CancelInfo.Canceled = TRUE,
                                        !.CancelInfo.AckTime = tnow[th]] IN
                     /\ r.CancelInfo.Asked
                     /\ store' = (store \ {r}) \cup {u}
                     /\ evt'[th] = u
                     /\ ret'[th] = Ret("AckCancel", evt[th].Target, "")]_vars

\* The holder has acknowledged a cancel another caller asked for: the record
\* of the target in the store is canceled and is what the handle holds.
C22_Witness ==
  \E th \in Threads :
    /\ Returned(th, "AckCancel") /\ ret[th].err = ""
    /\ held[th]
    /\ evt[th] \in Running(evt[th].Target)
    /\ evt[th].CancelInfo.Canceled /\ evt[th].CancelInfo.Asked
    /\ evt[th].CancelInfo.Owner # th

\* C23: once the running record of a target is canceled, no step takes the
\* acknowledgement back: whatever record has that id after the step is still
\* canceled and has the same ackTime.
C23_Forward ==
  [][\A r \in store :
       (r.Running /\ r.CancelInfo.Canceled) =>
         \A u \in {x \in store' : x.ID = r.ID} :
           /\ u.CancelInfo.Canceled
           /\ u.CancelInfo.AckTime = r.CancelInfo.AckTime]_vars

\* C24: the store call of a TryCancel that returns nil replaces one record by
\* a record that differs from it in cancelInfo only (it is still there, still
\* running, with the lockUpdateTime it had), changes no other record and
\* leaves the set of every updater as it was; and while the record of a
\* holder carries a cancel request, the store call of the holder's AckCancel
\* returns nil, and the Insert of the holder's Done returns nil and puts the
\* historical record in the store.
C24_Cooperative ==
  [][\A th \in Threads :
       /\ (pc[th] = "tc_apply" /\ pc'[th] = "idle" /\ ret'[th].err = "") =>
            /\ \E r \in store, u \in store' :
                 /\ store' = (store \ {r}) \cup {u}
                 /\ r = [u EXCEPT !.CancelInfo = r.CancelInfo]
                 /\ u.Running /\ u.ID = TargetId(u.Target)
            /\ set' = set
       /\ (pc[th] = "ac_apply" /\ pc'[th] = "idle" /\ held[th]
              /\ \E r \in Running(evt[th].Target) : r.Owner = th /\ r.CancelInfo.Asked) =>
            /\ ret'[th].err = ""
            /\ evt'[th] \in store'
       /\ (pc[th] = "d_insert" /\ pc'[th] = "d_remove" /\ args[th].held
              /\ \E r \in ById(rid[th]) : r.Owner = th /\ r.CancelInfo.Asked) =>
            /\ ret'[th] = Ret("Done", evt[th].Target, "")
            /\ evt[th] \in store' /\ ~evt[th].Running]_vars

\* A caller of another process asked to cancel the event of a holder, and the
\* Done of the holder has then returned nil and left the historical record.
C24_Witness ==
  \E th \in Threads, h \in Threads :
    /\ th # h
    /\ Returned(th, "TryCancel") /\ ret[th].err = ""
    /\ evt[th].Owner = h /\ evt[th].CancelInfo.Asked
    /\ Returned(h, "Done") /\ ret[h].err = ""
    /\ evt[h] \in Historical
    /\ Running(evt[h].Target) = {}

\* C25: when the Insert of the historical record fails inside a Done, the
\* store is as it was and Done is on its way out with that error; its next
\* and last step removes the active record of the target, writes nothing and
\* returns the error, so that the store then has no record of the target held
\* by this handle and no record with the id of the historical record.
C25_InsertFails ==
  [][\A th \in Threads :
       /\ (pc[th] = "d_insert" /\ pc'[th] # pc[th] /\ faults' # faults) =>
            /\ pc'[th] = "d_remove"
            /\ store' = store
            /\ ret'[th] = Ret("Done", evt[th].Target, "store error")
       /\ (pc[th] = "d_remove" /\ pc'[th] # pc[th] /\ ret[th].err = "store error") =>
            /\ pc'[th] = "idle" /\ ret'[th] = ret[th]
            /\ store' = store \ ById(rid[th])
            /\ args[th].held => (rid[th] = TargetId(evt[th].Target)
                                  /\ \A r \in store' : r.ID # rid[th])
            /\ \A r \in store' : r.ID # evt[th].ID]_vars

\* A holder's Done met a store that refused the Insert: Done has returned the
\* error, and the store has neither the active nor a historical record.
C25_Witness ==
  \E th \in Threads :
    /\ Returned(th, "Done") /\ ret[th].err = "store error"
    /\ ~evt[th].Running /\ ~held[th]
    /\ calls = 2 /\ store = {}

\* C26: the list All() returns has every record of the store, once, and is
\* in the order of descending startTime.
C26_NewestFirst ==
  /\ {All[k] : k \in DOMAIN All} = store
  /\ Len(All) = Cardinality(store)
  /\ \A j \in DOMAIN All, k \in DOMAIN All :
       j < k => All[j].StartTime >= All[k].StartTime

\* C27: a store failure in an iteration of the updater writes nothing,
\* leaves the set of the updater as it was and takes the updater back to its
\* select, where it serves add, remove and tick; and no step at all ends an
\* updater that was started.
C27_Survives ==
  [][\A p \in Procs :
       /\ (rpc[p] = "update" /\ rpc'[p] # rpc[p] /\ faults' # faults) =>
            /\ rpc'[p] = "select" /\ elapsed'[p] = 0
            /\ set' = set
            /\ store' = store
       /\ rpc[p] # "off" => rpc'[p] # "off"]_vars

\* The first update of the updater after a New failed, and the update of the
\* next tick, one interval later, renewed the lease of the holder.
C27_Witness ==
  \E r \in store, p \in Procs :
    /\ faults = 1 /\ calls = 1
    /\ r.Running /\ r.Target \in set[p]
    /\ now = r.StartTime + lockUpdateInterval
    /\ r.LockUpdateTime = now
    /\ rpc[p] = "select"

\* C28: a process never has two spin() goroutines at a time, whatever the
\* interleaving of the start() of its New calls and of its stop() calls, and
\* it has none before the first New.
C28_OneWorker ==
  \A p \in Procs :
    /\ spinning[p] <= 1
    /\ onceDone[p] = {} => spinning[p] = 0

\* A process whose updater was started, stopped by stop(), and started again by
\* a later New: its Once is the one stop() made, Do has run on it, and one
\* goroutine is spinning.
C28_Witness ==
  \E p \in Procs :
    /\ once[p] # 0 /\ once[p] \in onceDone[p]
    /\ spinning[p] = 1
    /\ \A th \in Threads : lpc[th] = "idle"

\* Two records are of one event: the same target, owner, kind and startTime.
SameEvent(r, u) ==
  /\ r.Target = u.Target /\ r.Owner = u.Owner
  /\ r.Kind = u.Kind /\ r.StartTime = u.StartTime

\* C29: the store never has two historical records of one event.
C29_OneHistorical ==
  \A r \in Historical, u \in Historical : SameEvent(r, u) => r = u

\* C30: when the New calls of callers of two processes on a target whose
\* active record had expired have both returned, they have not both returned
\* a handle, and the active record of the target is the record of the caller
\* that holds it.
C30_OneReclaimer ==
  \A th \in Threads, o \in Threads :
    (/\ procOf(th) # procOf(o)
     /\ Returned(th, "New") /\ Returned(o, "New")
     /\ ret[th].target = ret[o].target
     /\ ret[th].err = "") =>
      /\ ret[o].err # ""
      /\ \A r \in Running(ret[th].target) : r.Owner = th

\* C31: the RemoveId that ends a reclamation inside New removes nothing but
\* the record checkIsExpired read: what it removes has the owner, startTime
\* and lockUpdateTime, and every other field that Done leaves alone, of the
\* copy the reclamation worked on.
C31_RemovesWhatItRead ==
  [][\A th \in Threads :
       (pc[th] = "x_remove" /\ pc'[th] # pc[th]) =>
         \A u \in store \ store' :
           LET h == existing[th] IN
           [u EXCEPT !.ID = h.ID, !.Running = h.Running, !.Error = h.Error,
                     !.EndTime = h.EndTime, !.EndCustomData = h.EndCustomData,
                     !.Log = h.Log] = h]_vars

\* The record in the store that the New of the handle of th created.
OwnRecord(th, u) == u.Owner = th /\ u.StartTime = evt[th].StartTime /\ u.Target = evt[th].Target

\* C32: the store calls of the first Done or Abort on a handle New returned
\* remove no active record but the one the New of this handle created, also
\* when the lease ran out and another caller reclaimed the target; and the
\* entry of that Done or Abort takes no target out of the set of the updater
\* that another handle of the process holds.
C32_OwnRecordOnly ==
  [][\A th \in Threads :
       /\ (pc[th] \in {"d_abort", "d_remove"} /\ pc'[th] # pc[th] /\ args[th].held) =>
            \A u \in store \ store' : u.Running => OwnRecord(th, u)
       /\ (pc[th] = "idle" /\ pc'[th] \in {"d_abort", "d_insert"} /\ held[th]) =>
            \A o \in Threads \ {th} :
              (held[o] /\ procOf(o) = procOf(th) /\ evt[o].Target \in set[procOf(o)]) =>
                evt[o].Target \in set'[procOf(o)]]_vars

\* C33: the store calls of a Done or Abort on a handle that a Done had
\* already terminated (its id is the object id of its historical record)
\* leave the store as it was.
C33_SecondDone ==
  [][\A th \in Threads :
       /\ (pc[th] = "d_abort" /\ pc'[th] # pc[th] /\ IsObjectId(evt[th].ID)) =>
            store' = store
       /\ (pc[th] \in {"d_insert", "d_remove"} /\ pc'[th] # pc[th]
              /\ IsObjectId(rid[th])) =>
            store' = store]_vars

\* C34: every record of the store on which a cancel was asked is cancelable.
C34_AskedCancelable ==
  \A r \in store : r.CancelInfo.Asked => r.Cancelable

\* C35: the historical record the Done of a holder inserts has the cancelInfo
\* the active record of the event has in the store at that time.
C35_CancelInfoKept ==
  [][\A th \in Threads :
       (pc[th] = "d_insert" /\ pc'[th] # pc[th] /\ args[th].held) =>
         \A r \in ById(rid[th]), u \in store' \ store :
           OwnRecord(th, r) => u.CancelInfo = r.CancelInfo]_vars

\* C36: a caller that is inside a call is out of it at some later time.
C36_Returns ==
  \A th \in Threads : (pc[th] # "idle") ~> (pc[th] = "idle")

\* The error the part of a handler that runs under the event ends with, ""
\* when it ends well: the error of app.Delete in appDelete; in createApp the
\* error returned for an error of app.CreateApp, else the error of
\* GetRepository, else the error of json.Marshal.
GuardedErr(rq) ==
  IF rq.handler = "appDelete" THEN rq.opErr
  ELSE IF rq.opErr # "" THEN Translate(rq.opErr)
  ELSE IF rq.repoErr # "" THEN rq.repoErr
  ELSE rq.marshalErr

\* The request gets as far as event.New.
ReachesNew(rq) == rq.preErr = "" /\ rq.allowed

\* C37: a handler never calls Done twice; when it has returned, it has
\* called Done exactly once if its event.New succeeded and never if New
\* failed or was not reached; the Done got the error of what ran under the
\* event, nil when that went well; and when New failed the handler returned
\* the error of New.
C37_DoneOnce ==
  /\ Len(hdone) <= 1
  /\ hpc = "returned" =>
       IF ReachesNew(hin) /\ hin.newErr = ""
         THEN /\ hdone = <<GuardedErr(hin)>>
              /\ hin.handler = "createApp" => hres = GuardedErr(hin)
              /\ hin.handler = "appDelete" => hres = ""
         ELSE /\ hdone = <<>>
              /\ ReachesNew(hin) => hres = hin.newErr

\* createApp has returned after an app.CreateApp that failed on the quota:
\* one Done was called, with the error the handler returned.
C37_Witness ==
  /\ hpc = "returned" /\ hin.handler = "createApp"
  /\ hin.opErr = "quota"
  /\ Len(hdone) = 1 /\ hdone[1] # "" /\ hres = hdone[1]

\* The lines, each with its newline, one after the other.
RECURSIVE Join(_)
Join(ls) == IF ls = <<>> THEN "" ELSE Head(ls) \o "\n" \o Join(Tail(ls))

\* C38: the historical record that Done inserts has as log the lines given
\* to Logf on the handle before the Done, in call order, each followed by a
\* newline; and a Logf appends its line and a newline to the buffer of the
\* handle, and the same to the logWriter when the handle has one.
C38_Log ==
  [][\A th \in Threads :
       /\ (pc[th] = "d_insert" /\ pc'[th] = "d_remove") =>
            \E r \in store' \ store : ~r.Running /\ r.Log = Join(logged[th])
       /\ Len(logged'[th]) > Len(logged[th]) =>
            LET line == logged'[th][Len(logged'[th])] \o "\n" IN
              /\ logBuffer'[th] = logBuffer[th] \o line
              /\ logWriter[th].set => logWriter'[th].out = logWriter[th].out \o line
              /\ ~logWriter[th].set => logWriter'[th] = logWriter[th]]_vars

\* The store holds the historical record of an event whose holder logged a
\* line, gave the handle a logWriter and logged another line: the record has
\* both lines in that order and the logWriter got the second.
C38_Witness ==
  /\ \E r \in store : ~r.Running /\ r.Log = "step\npull\n"
  /\ logWriter["a"] = [set |-> TRUE, out |-> "pull\n"]
  /\ logged["a"] = <<"step", "pull">>

\* C39: a HasEvent check succeeds exactly when the collection holds one and
\* only one record with running=false that has the target, kind and owner of
\* the description and passes those of the custom-data, log and error filters
\* that the description gives; it fails when there is none, and so when only
\* a running record fits, and when there are two or more.
C39_HasEvent ==
  [][checked' # checked =>
       LET d == checked'.answer.desc
           fits == {r \in store :
                      /\ ~r.Running
                      /\ r.Target = d.Target /\ r.Kind = d.Kind /\ r.Owner = d.Owner
                      /\ d.StartCustomData = "" \/ r.StartCustomData = d.StartCustomData
                      /\ d.EndCustomData = "" \/ r.EndCustomData = d.EndCustomData
                      /\ d.LogMatches = "" \/ Contains(r.Log, d.LogMatches)
                      /\ d.ErrorMatches = "" \/ Contains(r.Error, d.ErrorMatches)}
       IN /\ checked'.answer.ok <=> Cardinality(fits) = 1
          /\ (\E r \in store : r.Running) /\ fits = {} => ~checked'.answer.ok]_vars

\* After two completed events of one owner on one target, a check that
\* describes them was answered "Multiple events match query".
C39_Witness ==
  /\ ~checked.answer.ok /\ checked.answer.msg = "Multiple events match query"
  /\ \E r, u \in store :
       /\ r # u /\ ~r.Running /\ ~u.Running
       /\ r.Target = u.Target /\ r.Kind = u.Kind /\ r.Owner = u.Owner
       /\ r.Owner = checked.answer.desc.Owner

====
